---------------------------- MODULE Spec2Model ----------------------------
(***************************************************************************)
(* A model of the svg package (svg.go): an emitter that owns one io.Writer *)
(* and whose every operation appends formatted text to it.                 *)
(*                                                                         *)
(* Text is modelled character by character: a Go string is a sequence of   *)
(* one-character strings, so that searching for '=', escaping and number   *)
(* formatting are computed as the code computes them.                      *)
(***************************************************************************)
EXTENDS Integers, Sequences, FiniteSets, TLC

VARIABLES
    sink,      \* the characters written to svg.Writer so far
    calls,     \* history: the public calls made, each with the sink length after it
    status,    \* "ok", or "panic" once a call aborted with a run-time panic
    reads,     \* history: slice elements indexed by the last call
    app        \* the application of a package-level pure function under study

vars == <<sink, calls, status, reads, app>>

----------------------------------------------------------------------------
(* Bounds of the model *)

MaxItems == 2      \* style items passed to one endstyle application
MaxDocCalls == 3   \* calls made on the emitter that writes a document
MaxNestCalls == 4  \* calls made on the emitter that nests containers
MaxDepth == 2      \* containers open at the same time
MaxOpCalls == 1    \* calls made on the emitter on which single operations are studied
MaxPts == 2        \* elements of a coordinate slice
MaxGridLines == 8  \* lines one Grid call is followed through
MaxStops == 2      \* stop colors of a gradient
MaxData == 2       \* data arguments of Script and Style

----------------------------------------------------------------------------
(* Strings *)

\* fmt's %d verb for one decimal digit
Digit(d) ==
    CASE d = 0 -> "0" [] d = 1 -> "1" [] d = 2 -> "2" [] d = 3 -> "3"
      [] d = 4 -> "4" [] d = 5 -> "5" [] d = 6 -> "6" [] d = 7 -> "7"
      [] d = 8 -> "8" [] d = 9 -> "9"

RECURSIVE natStr(_)
natStr(n) == IF n < 10 THEN <<Digit(n)>> ELSE natStr(n \div 10) \o <<Digit(n % 10)>>

\* fmt's %d verb
fmtD(n) == IF n < 0 THEN <<"-">> \o natStr(0 - n) ELSE natStr(n)

\* strings.Index(s, c) for a one-character c: the 0-based index of the first
\* occurrence of c in s, or -1
Index(s, c) ==
    IF \E k \in 1..Len(s) : s[k] = c
    THEN (CHOOSE k \in 1..Len(s) : s[k] = c /\ \A j \in 1..(k - 1) : s[j] # c) - 1
    ELSE -1

\* the concatenation of a sequence of strings
RECURSIVE Flat(_)
Flat(ws) == IF ws = <<>> THEN <<>> ELSE Head(ws) \o Flat(Tail(ws))

----------------------------------------------------------------------------
(* Attribute composition *)

\* style returns a style name,attribute string
style(s) ==
    IF Len(s) > 0
    THEN <<"s","t","y","l","e","=","\"">> \o s \o <<"\"">>
    ELSE s

\* the fragment endstyle's loop body appends for one item (without the space)
stylepartContains(item) == IF Index(item, "=") >= 0 THEN item ELSE style(item)

stylepart(item) == IF Index(item, "=") > 0 THEN item ELSE style(item)

\* endstyle's loop from index i (1-based here) with nv accumulated so far
RECURSIVE endstyleLoop(_, _, _)
endstyleLoop(s, i, nv) ==
    IF i > Len(s) THEN nv
    ELSE endstyleLoop(s, i + 1, nv \o stylepart(s[i]) \o <<" ">>)

endstyleSkipFirst(s, endtag) ==
    IF Len(s) > 0 THEN endstyleLoop(s, 2, <<>>) \o endtag ELSE endtag

\* endstyle modifies an SVG object, with either a series of name="value"
\* pairs, or a single string containing a style
endstyle(s, endtag) ==
    IF Len(s) > 0 THEN endstyleLoop(s, 1, <<>>) \o endtag ELSE endtag

----------------------------------------------------------------------------
(* Inputs *)

\* all sequences over S of length at most n
SeqUpTo(S, n) == UNION {[1..k -> S] : k \in 0..n}

\* style items: the empty string, bare style values, name=value pairs, and
\* strings in which '=' comes first
StyleItems ==
    { <<>>, <<"a">>, <<"b">>, <<"a","=","1">>, <<"=">>, <<"=","a">>,
      <<"x","=","y","=","z">> }

EndTags == { <<">">>, <<"/",">","\n">> }

\* the value of app while no pure function is under study
NoApp == [fn |-> "none", done |-> FALSE]

----------------------------------------------------------------------------
(* endstyle applied to bounded inputs *)

InitEndstyle ==
    /\ sink = <<>>
    /\ calls = <<>>
    /\ status = "ok"
    /\ reads = 0
    /\ \E s \in SeqUpTo(StyleItems, MaxItems), e \in EndTags :
          app = [fn |-> "endstyle", s |-> s, endtag |-> e, done |-> FALSE, ret |-> <<>>]

ApplyEndstyle ==
    /\ app.fn = "endstyle"
    /\ ~app.done
    /\ app' = [app EXCEPT !.done = TRUE, !.ret = endstyle(app.s, app.endtag)]
    /\ UNCHANGED <<sink, calls, status, reads>>

NextEndstyle == ApplyEndstyle

SpecEndstyle == InitEndstyle /\ [][NextEndstyle]_vars

----------------------------------------------------------------------------
(* Claims about endstyle *)

\* each string of frs followed by one space
RECURSIVE JoinSp(_)
JoinSp(frs) == IF frs = <<>> THEN <<>> ELSE Head(frs) \o <<" ">> \o JoinSp(Tail(frs))

\* where the i-th fragment starts in the result, given the fragments' lengths
RECURSIVE OffsetOf(_, _)
OffsetOf(lens, i) == IF i <= 1 THEN 0 ELSE OffsetOf(lens, i - 1) + lens[i - 1] + 1

\* C1: endstyle returns the fragments of the items in input order, each
\* followed by exactly one space, followed by the closing token; the closing
\* token alone for no items; endstyle(["a=1","b"], ">") = 'a=1 style="b" >'.
ThmC1_EndstyleOrder ==
    (app.fn = "endstyle" /\ app.done) =>
        LET s    == app.s
            e    == app.endtag
            r    == app.ret
            n    == Len(s)
            lens == [i \in 1..n |-> Len(stylepart(s[i]))]
            off(i) == OffsetOf(lens, i)
        IN  /\ Len(r) = off(n + 1) + Len(e)
            /\ \A i \in 1..n :
                  /\ SubSeq(r, off(i) + 1, off(i) + lens[i]) = stylepart(s[i])
                  /\ r[off(i) + lens[i] + 1] = " "
            /\ SubSeq(r, off(n + 1) + 1, Len(r)) = e
            /\ (n = 0 => r = e)
            /\ (s = << <<"a","=","1">>, <<"b">> >> /\ e = <<">">>
                  => r = <<"a","=","1"," ","s","t","y","l","e","=","\"","b","\""," ",">">>)

WitC1_TwoItems ==
    /\ app.fn = "endstyle" /\ app.done
    /\ app.s = << <<"a","=","1">>, <<"b">> >>
    /\ app.endtag = <<">">>
    /\ app.ret = <<"a","=","1"," ","s","t","y","l","e","=","\"","b","\""," ",">">>

HasEq(item) == \E k \in 1..Len(item) : item[k] = "="

Wrapped(item) == <<"s","t","y","l","e","=","\"">> \o item \o <<"\"">>

\* the fragment the original statement of C2 gives an item
FragAsClaimed(item) == IF HasEq(item) THEN item ELSE Wrapped(item)

\* the fragment the amended statement of C2 gives an item
FragAsAmended(item) ==
    IF item = <<>> THEN <<>>
    ELSE IF HasEq(item) /\ item[1] # "=" THEN item
    ELSE Wrapped(item)

\* C2 as stated: every item containing '=' anywhere (also first) is appended
\* verbatim, every item without '=' (also the empty string) is wrapped as
\* style="<item>".
CexC2_AnyEqVerbatim ==
    (app.fn = "endstyle" /\ app.done /\ Len(app.s) > 0) =>
        app.ret = JoinSp([i \in 1..Len(app.s) |-> FragAsClaimed(app.s[i])]) \o app.endtag

\* C2 amended: an item that contains '=' and does not begin with it is
\* appended verbatim; a non-empty item without '=' or beginning with '=' is
\* wrapped as style="<item>"; the empty string contributes an empty fragment.
ThmC2_EqAfterFirstVerbatim ==
    (app.fn = "endstyle" /\ app.done /\ Len(app.s) > 0) =>
        app.ret = JoinSp([i \in 1..Len(app.s) |-> FragAsAmended(app.s[i])]) \o app.endtag

WitC2_LeadingEqAndEmpty ==
    /\ app.fn = "endstyle" /\ app.done
    /\ Len(app.s) = 2
    /\ app.s[1] = <<"=","a">>
    /\ app.s[2] = <<>>
    /\ app.ret = <<"s","t","y","l","e","=","\"","=","a","\""," "," ">> \o app.endtag

----------------------------------------------------------------------------
(* The emitter: every public call is a fixed sequence of writes *)

\* fmt.Fprint of one string operand
print(a) == a

\* fmt.Fprintln of one string operand
println(a) == a \o <<"\n">>

emptyclose == <<"/",">","\n">>

svgtop == <<"<","?","x","m","l"," ","v","e","r","s","i","o","n","=","\"","1",".","0",
      "\"","?",">","\n","<","s","v","g">>

svgns ==
    <<"\n"," "," "," "," "," ","x","m","l","n","s","=","\"","h","t","t","p",":",
      "/","/","w","w","w",".","w","3",".","o","r","g","/","2","0","0","0","/",
      "s","v","g","\"">>
    \o <<"\n"," "," "," "," "," ","x","m","l","n","s",":","x","l","i","n","k","=",
         "\"","h","t","t","p",":","/","/","w","w","w",".","w","3",".","o","r","g",
         "/","1","9","9","9","/","x","l","i","n","k","\"",">">>

\* svginitfmt = `%s width="%d%s" height="%d%s"`
svginitfmt(top, w, wunit, h, hunit) ==
    top \o <<" ","w","i","d","t","h","=","\"">> \o fmtD(w) \o wunit \o <<"\""," ","h","e","i","g","h","t","=","\"">> \o fmtD(h) \o hunit \o <<"\"">>

genattrNoNewline(ns) == [i \in 1..Len(ns) |-> <<"\n"," "," "," "," "," ">> \o ns[i]] \o <<print(svgns)>>

\* genattr: one write per extra attribute, then the namespaces and a newline
genattr(ns) == [i \in 1..Len(ns) |-> <<"\n"," "," "," "," "," ">> \o ns[i]] \o <<println(svgns)>>

\* Start begins the SVG document with the width w and height h
StartWrites(w, h, ns) == <<svginitfmt(svgtop, w, <<>>, h, <<>>)>> \o genattr(ns)

\* Circle centered at x,y, with radius r, with optional style
CircleWrites(x, y, r, s) ==
    << <<"<","c","i","r","c","l","e"," ","c","x","=","\"">> \o fmtD(x) \o <<"\""," ","c","y","=","\"">> \o fmtD(y) \o <<"\""," ","r","=","\"">> \o fmtD(r)
         \o <<"\""," ">> \o endstyle(s, emptyclose) >>

EndWritesIfStarted == IF sink = <<>> THEN <<>> ELSE <<println(<<"<","/","s","v","g",">">>)>>

\* End the SVG document
EndWrites == <<println(<<"<","/","s","v","g",">">>)>>

\* Gend ends a group
GendWrites == <<println(<<"<","/","g",">">>)>>

\* A public call.  run.ws are the writes it issued, in order, each appended
\* after what the Writer already holds; run.panic says that it then aborted
\* with a run-time panic; run.reads counts the slice elements it indexed.
DoRun(op, args, run) ==
    /\ status = "ok"
    /\ sink' = sink \o Flat(run.ws)
    /\ calls' = Append(calls, [op |-> op, args |-> args, end |-> Len(sink')])
    /\ status' = IF run.panic THEN "panic" ELSE "ok"
    /\ reads' = run.reads
    /\ UNCHANGED app

\* A public call that indexes no slice and returns normally
Do(op, args, ws) == DoRun(op, args, [ws |-> ws, reads |-> 0, panic |-> FALSE])

\* the state after New(w)
InitEmitter ==
    /\ sink = <<>>
    /\ calls = <<>>
    /\ status = "ok"
    /\ reads = 0
    /\ app = NoApp

----------------------------------------------------------------------------
(* A program that writes a document: Start, Circle, End and Gend in any order *)

StartArgs == { <<100, 100>>, <<0, -5>> } \X { <<>>, << <<"v","i","e","w","B","o","x","=","\"","0"," ","0"," ","9"," ","9","\"">> >> }

CircleArgs == { <<50, 50, 40>>, <<-3, 7, 0>> } \X { <<>>, << <<"f","i","l","l",":","r","e","d">> >> }

Start ==
    /\ Len(calls) < MaxDocCalls
    /\ \E a \in StartArgs : Do("Start", a, StartWrites(a[1][1], a[1][2], a[2]))

Circle ==
    /\ Len(calls) < MaxDocCalls
    /\ \E a \in CircleArgs : Do("Circle", a, CircleWrites(a[1][1], a[1][2], a[1][3], a[2]))

End == Len(calls) < MaxDocCalls /\ Do("End", <<>>, EndWrites)

Gend == Len(calls) < MaxDocCalls /\ Do("Gend", <<>>, GendWrites)

NextDoc == Start \/ Circle \/ End \/ Gend

SpecDoc == InitEmitter /\ [][NextDoc]_vars

----------------------------------------------------------------------------
(* Claims about the document program *)

\* what the i-th call of the history appended to the sink
Fragment(i) == SubSeq(sink, (IF i = 1 THEN 0 ELSE calls[i - 1].end) + 1, calls[i].end)

\* the decimal numerals of the bounded inputs, written out
Numeral(n) ==
    CASE n = 100 -> <<"1","0","0">> [] n = 50 -> <<"5","0">> [] n = 40 -> <<"4","0">>
      [] n = 0 -> <<"0">> [] n = 7 -> <<"7">> [] n = -3 -> <<"-","3">> [] n = -5 -> <<"-","5">>

IsStartCircleEnd ==
    /\ Len(calls) = 3
    /\ calls[1].op = "Start" /\ calls[1].args[2] = <<>>
    /\ calls[2].op = "Circle" /\ calls[2].args[2] = <<>>
    /\ calls[3].op = "End"

\* C4: Start(w, h); Circle(x, y, r); End() on a fresh emitter leaves exactly
\* the XML declaration and svg opening tag with width, height and the two
\* namespace declarations, one self-closed circle with cx, cy, r, and </svg>.
ThmC4_HelloWorld ==
    IsStartCircleEnd =>
        LET wh  == calls[1].args[1]
            xyr == calls[2].args[1]
        IN  /\ sink =
                 <<"<","?","x","m","l"," ","v","e","r","s","i","o","n","=","\"","1",".","0",
                   "\"","?",">","\n","<","s","v","g"," ","w","i","d","t","h","=","\"">> \o Numeral(wh[1])
                 \o <<"\""," ","h","e","i","g","h","t","=","\"">> \o Numeral(wh[2]) \o <<"\"">>
                 \o <<"\n"," "," "," "," "," ","x","m","l","n","s","=","\"","h","t","t","p",":",
                      "/","/","w","w","w",".","w","3",".","o","r","g","/","2","0","0","0","/",
                      "s","v","g","\"">>
                 \o <<"\n"," "," "," "," "," ","x","m","l","n","s",":","x","l","i","n","k","=",
                      "\"","h","t","t","p",":","/","/","w","w","w",".","w","3",".","o","r","g",
                      "/","1","9","9","9","/","x","l","i","n","k","\"",">","\n">>
                 \o <<"<","c","i","r","c","l","e"," ","c","x","=","\"">> \o Numeral(xyr[1]) \o <<"\""," ","c","y","=","\"">> \o Numeral(xyr[2])
                 \o <<"\""," ","r","=","\"">> \o Numeral(xyr[3]) \o <<"\""," ","/",">","\n">>
                 \o <<"<","/","s","v","g",">","\n">>
            /\ (wh = <<100, 100>> /\ xyr = <<50, 50, 40>> =>
                  sink =
                     <<"<","?","x","m","l"," ","v","e","r","s","i","o","n","=","\"","1",".","0",
                       "\"","?",">","\n","<","s","v","g"," ","w","i","d","t","h","=","\"","1","0",
                       "0","\""," ","h","e","i","g","h","t","=","\"","1","0","0","\"">>
                     \o <<"\n"," "," "," "," "," ","x","m","l","n","s","=","\"","h","t","t","p",":",
                          "/","/","w","w","w",".","w","3",".","o","r","g","/","2","0","0","0","/",
                          "s","v","g","\"">>
                     \o <<"\n"," "," "," "," "," ","x","m","l","n","s",":","x","l","i","n","k","=",
                          "\"","h","t","t","p",":","/","/","w","w","w",".","w","3",".","o","r","g",
                          "/","1","9","9","9","/","x","l","i","n","k","\"",">","\n">>
                     \o <<"<","c","i","r","c","l","e"," ","c","x","=","\"","5","0","\""," ","c","y",
                          "=","\"","5","0","\""," ","r","=","\"","4","0","\""," ","/",">","\n","<","/",
                          "s","v","g",">","\n">>)

WitC4_Canonical ==
    /\ IsStartCircleEnd
    /\ calls[1].args[1] = <<100, 100>>
    /\ calls[2].args[1] = <<50, 50, 40>>
    /\ Len(sink) = 182

\* calls with the same arguments appended the same text, wherever they stand
\* in the history
SameCallSameText ==
    \A i, j \in 1..Len(calls) :
        (calls[i].op = calls[j].op /\ calls[i].args = calls[j].args)
            => Fragment(i) = Fragment(j)

FixedEndTexts ==
    \A i \in 1..Len(calls) :
        /\ calls[i].op = "End" => Fragment(i) = <<"<","/","s","v","g",">","\n">>
        /\ calls[i].op = "Gend" => Fragment(i) = <<"<","/","g",">","\n">>

OnlyAppends == Len(sink) <= Len(sink') /\ SubSeq(sink', 1, Len(sink)) = sink

\* C5: the emitter holds no state besides its sink: what a call appends
\* depends on its arguments alone, not on the calls before it (End, Gend and
\* Circle write the same whether or not Start was called, a second Start
\* writes the header again), and every call only appends: the sink before it
\* is a prefix of the sink after it.
ThmC5_NoHiddenState == [](SameCallSameText /\ FixedEndTexts) /\ [][OnlyAppends]_vars

WitC5_EndBeforeAndAfterStart ==
    /\ Len(calls) = 3
    /\ calls[1].op = "End"
    /\ calls[2].op = "Start"
    /\ calls[3].op = "End"
    /\ Fragment(1) = Fragment(3)

----------------------------------------------------------------------------
(* Containers: groups, definitions, clip paths, masks, patterns, markers,  *)
(* filters and links, each opened by one call and closed by another        *)

\* encoding/xml's Escape (EscapeText) for one character
escChar(c) ==
    CASE c = "\"" -> <<"&","#","3","4",";">>
      [] c = "'"  -> <<"&","#","3","9",";">>
      [] c = "&"  -> <<"&","a","m","p",";">>
      [] c = "<"  -> <<"&","l","t",";">>
      [] c = ">"  -> <<"&","g","t",";">>
      [] c = "\t" -> <<"&","#","x","9",";">>
      [] c = "\n" -> <<"&","#","x","A",";">>
      [] c = "\r" -> <<"&","#","x","D",";">>
      [] OTHER    -> <<c>>

\* xml.Escape(svg.Writer, []byte(s)): what it writes
RECURSIVE xmlEscape(_)
xmlEscape(s) == IF s = <<>> THEN <<>> ELSE escChar(Head(s)) \o xmlEscape(Tail(s))

\* group returns a group element
group(tag, value) == <<"<","g"," ">> \o tag \o <<"=","\"">> \o value \o <<"\"",">">>

\* Gstyle begins a group, with the specified style
GstyleWrites(s) == <<println(group(<<"s","t","y","l","e">>, s))>>

\* Gtransform begins a group, with the specified transform
GtransformWrites(s) ==
    << <<"<","g"," ">> \o <<"t","r","a","n","s","f","o","r","m">> \o <<"=","\"">> \o s \o <<"\"",">">>, println(<<>>) >>

\* Group begins a group with arbitrary attributes
GroupWrites(s) == << <<"<","g"," ">> \o endstyle(s, <<">">>) \o <<"\n">> >>

GidWritesRaw(s) == << print(<<"<","g"," ","i","d","=","\"">>), s, println(<<"\"",">">>) >>

\* Gid begins a group, with the specified id
GidWrites(s) == << print(<<"<","g"," ","i","d","=","\"">>), xmlEscape(s), println(<<"\"",">">>) >>

\* ClipPath defines a clip path
ClipPathWrites(s) == << <<"<","c","l","i","p","P","a","t","h"," ">> \o endstyle(s, <<">">>) >>

\* ClipEnd ends a ClipPath
ClipEndWrites == <<println(<<"<","/","c","l","i","p","P","a","t","h",">">>)>>

\* Def begins a defintion block
DefWrites == <<println(<<"<","d","e","f","s",">">>)>>

\* DefEnd ends a defintion block
DefEndWrites == <<println(<<"<","/","d","e","f","s",">">>)>>

\* Marker defines a marker
MarkerWrites(id, x, y, width, height, s) ==
    << <<"<","m","a","r","k","e","r"," ","i","d","=","\"">> \o id \o <<"\""," ","r","e","f","X","=","\"">> \o fmtD(x) \o <<"\""," ","r","e","f","Y","=","\"">> \o fmtD(y)
         \o <<"\""," ","m","a","r","k","e","r","W","i","d","t","h","=","\"">> \o fmtD(width) \o <<"\""," ","m","a","r","k","e","r","H","e","i","g","h","t","=","\"">> \o fmtD(height)
         \o <<"\""," ">> \o endstyle(s, <<">","\n">>) >>

\* MarkerEnd ends a marker
MarkerEndWrites == <<println(<<"<","/","m","a","r","k","e","r",">">>)>>

\* Pattern defines a pattern with the specified dimensions; putype "user"
\* gives userSpaceOnUse, anything else objectBoundingBox
PatternWrites(id, x, y, width, height, putype, s) ==
    LET puattr == IF putype # <<"u","s","e","r">> THEN <<"o","b","j","e","c","t","B","o","u","n","d","i","n","g","B","o","x">> ELSE <<"u","s","e","r","S","p","a","c","e","O","n","U","s","e">>
    IN  << <<"<","p","a","t","t","e","r","n"," ","i","d","=","\"">> \o id \o <<"\""," ","x","=","\"">> \o fmtD(x) \o <<"\""," ","y","=","\"">> \o fmtD(y)
             \o <<"\""," ","w","i","d","t","h","=","\"">> \o fmtD(width) \o <<"\""," ","h","e","i","g","h","t","=","\"">> \o fmtD(height)
             \o <<"\""," ","p","a","t","t","e","r","n","U","n","i","t","s","=","\"">> \o puattr \o <<"\""," ">> \o endstyle(s, <<">","\n">>) >>

PatternEndWritesMarker == <<println(<<"<","/","m","a","r","k","e","r",">">>)>>

\* PatternEnd ends a pattern
PatternEndWrites == <<println(<<"<","/","p","a","t","t","e","r","n",">">>)>>

\* Link begins a link named "name", with the specified title
LinkWrites(href, title) ==
    << <<"<","a"," ","x","l","i","n","k",":","h","r","e","f","=","\"">> \o href \o <<"\""," ","x","l","i","n","k",":","t","i","t","l","e","=","\"">>, xmlEscape(title),
       println(<<"\"",">">>) >>

\* LinkEnd ends a link
LinkEndWrites == <<println(<<"<","/","a",">">>)>>

\* Mask creates a mask with a specified id, dimension, and optional style
MaskWrites(id, x, y, w, h, s) ==
    << <<"<","m","a","s","k"," ","i","d","=","\"">> \o id \o <<"\""," ","x","=","\"">> \o fmtD(x) \o <<"\""," ","y","=","\"">> \o fmtD(y)
         \o <<"\""," ","w","i","d","t","h","=","\"">> \o fmtD(w) \o <<"\""," ","h","e","i","g","h","t","=","\"">> \o fmtD(h)
         \o <<"\""," ">> \o endstyle(s, <<">">>) >>

\* MaskEnd ends a Mask
MaskEndWrites == <<println(<<"<","/","m","a","s","k",">">>)>>

\* Filter begins a filter set
FilterWrites(id, s) == << <<"<","f","i","l","t","e","r"," ","i","d","=","\"">> \o id \o <<"\""," ">> \o endstyle(s, <<">","\n">>) >>

\* Fend ends a filter set
FendWrites == <<println(<<"<","/","f","i","l","t","e","r",">">>)>>

----------------------------------------------------------------------------
(* A program that nests containers.  The caller keeps the library's rule:  *)
(* an end call is made only for the container opened last and still open.  *)

\* the end call each opening call is to be paired with
Closer(op) ==
    CASE op \in {"Gstyle", "Gtransform", "Group", "Gid"} -> "Gend"
      [] op = "Def"      -> "DefEnd"
      [] op = "ClipPath" -> "ClipEnd"
      [] op = "Mask"     -> "MaskEnd"
      [] op = "Pattern"  -> "PatternEnd"
      [] op = "Marker"   -> "MarkerEnd"
      [] op = "Filter"   -> "Fend"
      [] op = "Link"     -> "LinkEnd"

Openers ==
    {"Gstyle", "Gtransform", "Group", "Gid", "Def", "ClipPath", "Mask", "Pattern",
     "Marker", "Filter", "Link"}

\* the opening calls of history cs that no later call has closed, oldest first
RECURSIVE Unclosed(_)
Unclosed(cs) ==
    IF cs = <<>> THEN <<>>
    ELSE LET before == Unclosed(SubSeq(cs, 1, Len(cs) - 1))
             c      == cs[Len(cs)]
         IN  IF c.op \in Openers THEN Append(before, c.op)
             ELSE SubSeq(before, 1, Len(before) - 1)

CanOpen == Len(calls) < MaxNestCalls /\ Len(Unclosed(calls)) < MaxDepth

CanClose(endop) ==
    /\ Len(calls) < MaxNestCalls
    /\ Unclosed(calls) # <<>>
    /\ Closer(Unclosed(calls)[Len(Unclosed(calls))]) = endop

NestStyles == { <<>>, << <<"i","d","=","\"","a","\"">> >> }

NestBox == <<0, 0, 9, 12>>

Gstyle == CanOpen /\ \E s \in { <<"f","i","l","l",":","r","e","d">> } : Do("Gstyle", <<s>>, GstyleWrites(s))

Gtransform == CanOpen /\ \E s \in { <<"r","o","t","a","t","e","(","9",")">> } : Do("Gtransform", <<s>>, GtransformWrites(s))

Group == CanOpen /\ \E s \in NestStyles : Do("Group", <<s>>, GroupWrites(s))

Gid == CanOpen /\ \E s \in { <<"g","1">> } : Do("Gid", <<s>>, GidWrites(s))

Def == CanOpen /\ Do("Def", <<>>, DefWrites)

ClipPath == CanOpen /\ \E s \in { << <<"i","d","=","\"","c","\"">> >> } : Do("ClipPath", <<s>>, ClipPathWrites(s))

Mask ==
    /\ CanOpen
    /\ \E id \in { <<"m">> }, b \in {NestBox}, s \in { <<>> } :
          Do("Mask", <<id, b, s>>, MaskWrites(id, b[1], b[2], b[3], b[4], s))

Pattern ==
    /\ CanOpen
    /\ \E id \in { <<"p">> }, b \in {NestBox}, pu \in { <<"u","s","e","r">>, <<"o","b","j">> }, s \in { <<>> } :
          Do("Pattern", <<id, b, pu, s>>, PatternWrites(id, b[1], b[2], b[3], b[4], pu, s))

Marker ==
    /\ CanOpen
    /\ \E id \in { <<"k">> }, b \in {NestBox}, s \in { << <<"o","r","i","e","n","t","=","\"","a","u","t","o","\"">> >> } :
          Do("Marker", <<id, b, s>>, MarkerWrites(id, b[1], b[2], b[3], b[4], s))

Filter == CanOpen /\ \E id \in { <<"f">> }, s \in { <<>> } : Do("Filter", <<id, s>>, FilterWrites(id, s))

Link ==
    /\ CanOpen
    /\ \E href \in { <<"#","t","o","p">> }, title \in { <<"t","o"," ","t","o","p">> } :
          Do("Link", <<href, title>>, LinkWrites(href, title))

GendPaired == CanClose("Gend") /\ Do("Gend", <<>>, GendWrites)

DefEnd == CanClose("DefEnd") /\ Do("DefEnd", <<>>, DefEndWrites)

ClipEnd == CanClose("ClipEnd") /\ Do("ClipEnd", <<>>, ClipEndWrites)

MaskEnd == CanClose("MaskEnd") /\ Do("MaskEnd", <<>>, MaskEndWrites)

PatternEnd == CanClose("PatternEnd") /\ Do("PatternEnd", <<>>, PatternEndWrites)

MarkerEnd == CanClose("MarkerEnd") /\ Do("MarkerEnd", <<>>, MarkerEndWrites)

Fend == CanClose("Fend") /\ Do("Fend", <<>>, FendWrites)

LinkEnd == CanClose("LinkEnd") /\ Do("LinkEnd", <<>>, LinkEndWrites)

NextNest ==
    \/ Gstyle \/ Gtransform \/ Group \/ Gid \/ Def \/ ClipPath \/ Mask \/ Pattern
    \/ Marker \/ Filter \/ Link
    \/ GendPaired \/ DefEnd \/ ClipEnd \/ MaskEnd \/ PatternEnd \/ MarkerEnd \/ Fend
    \/ LinkEnd

SpecNest == InitEmitter /\ [][NextNest]_vars

----------------------------------------------------------------------------
(* Claims about nesting: the tags are read back from the sink *)

\* the least member of a non-empty set of indices
Least(S) == CHOOSE i \in S : \A j \in S : i <= j

\* the first index from k on at which t holds a character of cs, Len(t) + 1
\* when there is none
FirstOf(t, k, cs) ==
    LET hits == {i \in k..Len(t) : t[i] \in cs}
    IN  IF hits = {} THEN Len(t) + 1 ELSE Least(hits)

\* the first index from k on at which an element name ends
NameEnd(t, k) == FirstOf(t, k, {" ", ">", "/", "\n"})

\* the index of the '>' that ends the tag being read at k: the first one not
\* inside a quoted attribute value; Len(t) + 1 when the tag never ends
TagEnd(t, k) ==
    LET hits == {i \in k..Len(t) :
                    /\ t[i] = ">"
                    /\ Cardinality({j \in k..(i - 1) : t[j] = "\""}) % 2 = 0}
    IN  IF hits = {} THEN Len(t) + 1 ELSE Least(hits)

\* Reads the tags of t from index k on, with the element names in open still
\* open and n tags read so far.  ok is FALSE at a closing tag that does not
\* name the innermost open element, and at a tag that never ends.
RECURSIVE ReadTags(_, _, _, _)
ReadTags(t, k, open, n) ==
    IF k > Len(t) THEN [ok |-> TRUE, open |-> open, n |-> n]
    ELSE IF t[k] # "<" THEN ReadTags(t, FirstOf(t, k, {"<"}), open, n)
    ELSE LET closing == k < Len(t) /\ t[k + 1] = "/"
             from    == IF closing THEN k + 2 ELSE k + 1
             upto    == NameEnd(t, from)
             name    == SubSeq(t, from, upto - 1)
             gt      == TagEnd(t, upto)
         IN  IF gt > Len(t) \/ name = <<>> THEN [ok |-> FALSE, open |-> open, n |-> n]
             ELSE IF closing
               THEN IF open # <<>> /\ open[Len(open)] = name
                      THEN ReadTags(t, gt + 1, SubSeq(open, 1, Len(open) - 1), n + 1)
                      ELSE [ok |-> FALSE, open |-> open, n |-> n]
             ELSE IF t[gt - 1] = "/" \/ name[1] = "?"
               THEN ReadTags(t, gt + 1, open, n + 1)
             ELSE ReadTags(t, gt + 1, Append(open, name), n + 1)

----------------------------------------------------------------------------
(* Multi-point shapes *)

\* coord returns a coordinate string
coord(x, y) == fmtD(x) \o <<",">> \o fmtD(y)

ppNoLengthCheck(x, y, tag) ==
    IF Len(x) = 0 \/ Len(y) < Len(x)
    THEN [ws |-> <<print(tag)>>, reads |-> 0, panic |-> TRUE]
    ELSE [ws |-> <<print(tag)>>
                   \o [i \in 1..(Len(x) - 1) |-> print(coord(x[i], y[i]) \o <<" ">>)]
                   \o <<print(coord(x[Len(x)], y[Len(x)]))>>,
          reads |-> 2 * Len(x), panic |-> FALSE]

\* pp returns a series of polygon points.  With slices of different lengths
\* it writes the tag and a space and returns; with two empty slices lx is -1,
\* the loop does not run and x[lx] panics after the tag was written.
pp(x, y, tag) ==
    IF Len(x) # Len(y)
    THEN [ws |-> <<print(tag), print(<<" ">>)>>, reads |-> 0, panic |-> FALSE]
    ELSE IF Len(x) = 0
    THEN [ws |-> <<print(tag)>>, reads |-> 0, panic |-> TRUE]
    ELSE [ws |-> <<print(tag)>>
                   \o [i \in 1..(Len(x) - 1) |-> print(coord(x[i], y[i]) \o <<" ">>)]
                   \o <<print(coord(x[Len(x)], y[Len(x)]))>>,
          reads |-> 2 * Len(x), panic |-> FALSE]

\* poly compiles the polygon element
poly(x, y, tag, s) ==
    LET p == pp(x, y, <<"<">> \o tag \o <<" ","p","o","i","n","t","s","=","\"">>)
    IN  IF p.panic THEN p
        ELSE [p EXCEPT !.ws = p.ws \o <<print(<<"\""," ">> \o endstyle(s, <<"/",">","\n">>))>>]

----------------------------------------------------------------------------
(* A program that draws one multi-point shape *)

PolyXs == SeqUpTo({3, -4}, MaxPts)

PolyYs == SeqUpTo({5}, MaxPts)

PolyStyles == { <<>>, << <<"f","i","l","l",":","r","e","d">> >>, << <<"i","d","=","\"","a","\"">>, <<"b">> >> }

Polygon ==
    /\ Len(calls) < MaxOpCalls
    /\ \E x \in PolyXs, y \in PolyYs, s \in PolyStyles :
          DoRun("Polygon", <<x, y, s>>, poly(x, y, <<"p","o","l","y","g","o","n">>, s))

Polyline ==
    /\ Len(calls) < MaxOpCalls
    /\ \E x \in PolyXs, y \in PolyYs, s \in PolyStyles :
          DoRun("Polyline", <<x, y, s>>, poly(x, y, <<"p","o","l","y","l","i","n","e">>, s))

NextPoly == Polygon \/ Polyline

SpecPoly == InitEmitter /\ [][NextPoly]_vars

----------------------------------------------------------------------------
(* Claims about multi-point shapes *)

\* the last call of the history
LastCall == calls[Len(calls)]

\* what the style arguments s contribute before the closing token e
StylePart(s, e) ==
    IF s = <<>> THEN e ELSE JoinSp([i \in 1..Len(s) |-> FragAsAmended(s[i])]) \o e

\* C6: Polygon and Polyline called with coordinate arrays of different
\* lengths write the element with a point list holding no coordinate pair,
\* then the style and closing part, read no array element and do not raise.
ThmC6_MismatchedLengths ==
    (/\ calls # <<>>
     /\ LastCall.op \in {"Polygon", "Polyline"}
     /\ Len(LastCall.args[1]) # Len(LastCall.args[2])) =>
        /\ status = "ok"
        /\ reads = 0
        /\ Fragment(Len(calls)) =
              (IF LastCall.op = "Polygon" THEN <<"<","p","o","l","y","g","o","n">> ELSE <<"<","p","o","l","y","l","i","n","e">>)
              \o <<" ","p","o","i","n","t","s","=","\""," ","\""," ">> \o StylePart(LastCall.args[3], <<"/",">","\n">>)

WitC6_EmptyXTwoYs ==
    /\ calls # <<>>
    /\ LastCall.op = "Polygon"
    /\ LastCall.args = << <<>>, <<5, 5>>, <<>> >>
    /\ status = "ok"
    /\ Fragment(Len(calls)) = <<"<","p","o","l","y","g","o","n"," ","p","o","i","n","t","s","=","\""," ",
          "\""," ","/",">","\n">>

----------------------------------------------------------------------------
(* A program that makes one call with caller-supplied attribute strings *)

\* loc returns the x and y coordinate attributes
loc(x, y) == <<"x","=","\"">> \o fmtD(x) \o <<"\""," ","y","=","\"">> \o fmtD(y) \o <<"\"">>

\* href returns the href name and attribute
href(s) == <<"x","l","i","n","k",":","h","r","e","f","=","\"">> \o s \o <<"\"">>

\* Use places the object referenced at link at the location x, y, with
\* optional style
UseWrites(x, y, link, s) ==
    << <<"<","u","s","e"," ">> \o loc(x, y) \o <<" ">> \o href(link) \o <<" ">> \o endstyle(s, emptyclose) >>

\* ids, hrefs, titles and style strings, with and without the characters
\* that XML escaping rewrites
AttrStrings ==
    { <<>>, <<"a">>, <<"<">>, <<">">>, <<"&">>, <<"\"">>, <<"'">>, <<"a","<","b","&","c">> }

AttrStyles == { <<>>, << <<"<","&",">">> >>, << <<"a","=","\"","<","\"">>, <<"b">> >> }

AttrGid ==
    /\ Len(calls) < MaxOpCalls
    /\ \E s \in AttrStrings : Do("Gid", <<s>>, GidWrites(s))

AttrLink ==
    /\ Len(calls) < MaxOpCalls
    /\ \E h \in AttrStrings, title \in AttrStrings :
          Do("Link", <<h, title>>, LinkWrites(h, title))

AttrGstyle ==
    /\ Len(calls) < MaxOpCalls
    /\ \E s \in AttrStrings : Do("Gstyle", <<s>>, GstyleWrites(s))

AttrGtransform ==
    /\ Len(calls) < MaxOpCalls
    /\ \E s \in AttrStrings : Do("Gtransform", <<s>>, GtransformWrites(s))

AttrMask ==
    /\ Len(calls) < MaxOpCalls
    /\ \E id \in AttrStrings, b \in {NestBox}, s \in { <<>> } :
          Do("Mask", <<id, b, s>>, MaskWrites(id, b[1], b[2], b[3], b[4], s))

AttrMarker ==
    /\ Len(calls) < MaxOpCalls
    /\ \E id \in AttrStrings, b \in {NestBox}, s \in { <<>> } :
          Do("Marker", <<id, b, s>>, MarkerWrites(id, b[1], b[2], b[3], b[4], s))

AttrPattern ==
    /\ Len(calls) < MaxOpCalls
    /\ \E id \in AttrStrings, b \in {NestBox}, pu \in { <<"u","s","e","r">> }, s \in { <<>> } :
          Do("Pattern", <<id, b, pu, s>>, PatternWrites(id, b[1], b[2], b[3], b[4], pu, s))

AttrFilter ==
    /\ Len(calls) < MaxOpCalls
    /\ \E id \in AttrStrings, s \in AttrStyles :
          Do("Filter", <<id, s>>, FilterWrites(id, s))

Use ==
    /\ Len(calls) < MaxOpCalls
    /\ \E xy \in { <<3, -4>> }, link \in AttrStrings, s \in { <<>> } :
          Do("Use", <<xy, link, s>>, UseWrites(xy[1], xy[2], link, s))

NextAttr ==
    \/ AttrGid \/ AttrLink \/ AttrGstyle \/ AttrGtransform \/ AttrMask \/ AttrMarker
    \/ AttrPattern \/ AttrFilter \/ Use

SpecAttr == InitEmitter /\ [][NextAttr]_vars

----------------------------------------------------------------------------
(* Claims about attribute values *)

\* the entity reference XML escaping gives a character
Entity(c) ==
    CASE c = "<"  -> <<"&","l","t",";">>
      [] c = ">"  -> <<"&","g","t",";">>
      [] c = "&"  -> <<"&","a","m","p",";">>
      [] c = "\"" -> <<"&","#","3","4",";">>
      [] c = "'"  -> <<"&","#","3","9",";">>
      [] OTHER    -> <<c>>

Escaped(s) == Flat([i \in 1..Len(s) |-> Entity(s[i])])

\* The text call c is to append when the id of Gid is written as gid and the
\* title of Link as title, every other caller-supplied string as it is.
AttrText(c, gid, title) ==
    LET a == c.args
    IN  CASE c.op = "Gid" -> <<"<","g"," ","i","d","=","\"">> \o gid \o <<"\"",">","\n">>
          [] c.op = "Link" ->
                <<"<","a"," ","x","l","i","n","k",":","h","r","e","f","=","\"">> \o a[1] \o <<"\""," ","x","l","i","n","k",":","t","i","t","l","e","=","\"">> \o title \o <<"\"",">","\n">>
          [] c.op = "Gstyle" -> <<"<","g"," ","s","t","y","l","e","=","\"">> \o a[1] \o <<"\"",">","\n">>
          [] c.op = "Gtransform" -> <<"<","g"," ","t","r","a","n","s","f","o","r","m","=","\"">> \o a[1] \o <<"\"",">","\n">>
          [] c.op = "Mask" ->
                <<"<","m","a","s","k"," ","i","d","=","\"">> \o a[1] \o <<"\""," ","x","=","\"","0","\""," ","y","=","\"","0","\""," ","w","i","d","t",
                      "h","=","\"","9","\""," ","h","e","i","g","h","t","=","\"","1","2","\""," ",
                      ">">>
          [] c.op = "Marker" ->
                <<"<","m","a","r","k","e","r"," ","i","d","=","\"">> \o a[1]
                \o <<"\""," ","r","e","f","X","=","\"","0","\""," ","r","e","f","Y","=","\"","0",
                     "\""," ","m","a","r","k","e","r","W","i","d","t","h","=","\"","9","\""," ",
                     "m","a","r","k","e","r","H","e","i","g","h","t","=","\"","1","2","\""," ",
                     ">","\n">>
          [] c.op = "Pattern" ->
                <<"<","p","a","t","t","e","r","n"," ","i","d","=","\"">> \o a[1]
                \o <<"\""," ","x","=","\"","0","\""," ","y","=","\"","0","\""," ","w","i","d","t",
                     "h","=","\"","9","\""," ","h","e","i","g","h","t","=","\"","1","2","\"">>
                \o <<" ","p","a","t","t","e","r","n","U","n","i","t","s","=","\"","u","s","e",
                     "r","S","p","a","c","e","O","n","U","s","e","\""," ",">","\n">>
          [] c.op = "Filter" ->
                <<"<","f","i","l","t","e","r"," ","i","d","=","\"">> \o a[1] \o <<"\""," ">> \o StylePart(a[2], <<">","\n">>)
          [] c.op = "Use" ->
                <<"<","u","s","e"," ","x","=","\"","3","\""," ","y","=","\"","-","4","\""," ",
                  "x","l","i","n","k",":","h","r","e","f","=","\"">> \o a[2] \o <<"\""," ","/",">","\n">>

AttrOps ==
    {"Gid", "Link", "Gstyle", "Gtransform", "Mask", "Marker", "Pattern", "Filter", "Use"}

\* C7 as stated: escaping is never applied to attribute values; every
\* caller-supplied string placed inside a quoted attribute value (ids, hrefs,
\* titles, style strings) reaches the sink verbatim.
CexC7_NoAttributeEscaped ==
    (calls # <<>> /\ LastCall.op \in AttrOps) =>
        Fragment(Len(calls)) =
            AttrText(LastCall,
                     IF LastCall.op = "Gid" THEN LastCall.args[1] ELSE <<>>,
                     IF LastCall.op = "Link" THEN LastCall.args[2] ELSE <<>>)

\* C7 amended: the id of Gid and the title of Link are written through the
\* XML escaper; every other caller-supplied string placed inside a quoted
\* attribute value (the href of Link, the ids of Mask, Marker, Pattern and
\* Filter, the link of Use, the strings of Gstyle and Gtransform, the style
\* items composed by endstyle) reaches the sink verbatim.
ThmC7_OnlyGidAndLinkTitleEscaped ==
    (calls # <<>> /\ LastCall.op \in AttrOps) =>
        Fragment(Len(calls)) =
            AttrText(LastCall,
                     IF LastCall.op = "Gid" THEN Escaped(LastCall.args[1]) ELSE <<>>,
                     IF LastCall.op = "Link" THEN Escaped(LastCall.args[2]) ELSE <<>>)

WitC7_LinkHrefRawTitleEscaped ==
    /\ calls # <<>>
    /\ LastCall.op = "Link"
    /\ LastCall.args = << <<"a","<","b","&","c">>, <<"a","<","b","&","c">> >>
    /\ Fragment(Len(calls)) =
          <<"<","a"," ","x","l","i","n","k",":","h","r","e","f","=","\"","a","<","b",
            "&","c","\""," ","x","l","i","n","k",":","t","i","t","l","e","=","\"","a",
            "&","l","t",";","b","&","a","m","p",";","c","\"",">","\n">>

----------------------------------------------------------------------------
(* Text *)

TextWritesRaw(x, y, t, s) ==
    << <<"<","t","e","x","t"," ">> \o loc(x, y) \o <<" ">> \o endstyle(s, <<">">>), t, println(<<"<","/","t","e","x","t",">">>) >>

\* Text places the specified text, t at x,y according to the style
\* specified in s
TextWrites(x, y, t, s) ==
    << <<"<","t","e","x","t"," ">> \o loc(x, y) \o <<" ">> \o endstyle(s, <<">">>), xmlEscape(t),
       println(<<"<","/","t","e","x","t",">">>) >>

\* Textspan begins text, assuming a tspan will be included, end with TextEnd()
TextspanWrites(x, y, t, s) ==
    << <<"<","t","e","x","t"," ">> \o loc(x, y) \o <<" ">> \o endstyle(s, <<">">>), xmlEscape(t) >>

\* Span makes styled spanned text, should be proceeded by Textspan
SpanWrites(t, s) ==
    IF Len(s) = 0 THEN <<xmlEscape(t)>>
    ELSE << <<"<","t","s","p","a","n"," ">> \o endstyle(s, <<">">>), xmlEscape(t), <<"<","/","t","s","p","a","n",">">> >>

\* Textpath places text optionally styled text along a previously defined path
TextpathWrites(t, pathid, s) ==
    << <<"<","t","e","x","t"," ">> \o endstyle(s, <<">">>) \o <<"<","t","e","x","t","P","a","t","h"," ","x","l","i","n","k",":","h","r",
          "e","f","=","\"">> \o pathid \o <<"\"",">">>,
       xmlEscape(t), println(<<"<","/","t","e","x","t","P","a","t","h",">","<","/","t","e","x","t",">">>) >>

\* tt creates a xml element, tag containing s
tt(tag, s) ==
    << print(<<"<">> \o tag \o <<">">>), xmlEscape(s), println(<<"<","/">> \o tag \o <<">">>) >>

\* Desc specified the text of the description tag
DescWrites(s) == tt(<<"d","e","s","c">>, s)

\* Title specified the text of the title tag
TitleWrites(s) == tt(<<"t","i","t","l","e">>, s)

----------------------------------------------------------------------------
(* A program that makes one call with free-form display text *)

Texts ==
    { <<>>, <<"a">>, <<"<">>, <<">">>, <<"&">>, <<"\"">>, <<"i","t","'","s">>, <<"a","<","b",">","c">>, <<"&","l","t",";">> }

TextStyles == { <<>>, << <<"f","i","l","l",":","r","e","d">> >> }

Text ==
    /\ Len(calls) < MaxOpCalls
    /\ \E xy \in { <<50, 7>>, <<-3, 100>> }, t \in Texts, s \in TextStyles :
          Do("Text", <<xy, t, s>>, TextWrites(xy[1], xy[2], t, s))

Textspan ==
    /\ Len(calls) < MaxOpCalls
    /\ \E xy \in { <<50, 7>> }, t \in Texts, s \in TextStyles :
          Do("Textspan", <<xy, t, s>>, TextspanWrites(xy[1], xy[2], t, s))

Span ==
    /\ Len(calls) < MaxOpCalls
    /\ \E t \in Texts, s \in TextStyles : Do("Span", <<t, s>>, SpanWrites(t, s))

Textpath ==
    /\ Len(calls) < MaxOpCalls
    /\ \E t \in Texts, id \in { <<"#","p">> }, s \in TextStyles :
          Do("Textpath", <<t, id, s>>, TextpathWrites(t, id, s))

Title ==
    /\ Len(calls) < MaxOpCalls
    /\ \E t \in Texts : Do("Title", <<t>>, TitleWrites(t))

Desc ==
    /\ Len(calls) < MaxOpCalls
    /\ \E t \in Texts : Do("Desc", <<t>>, DescWrites(t))

NextText == Text \/ Textspan \/ Span \/ Textpath \/ Title \/ Desc

SpecText == InitEmitter /\ [][NextText]_vars

----------------------------------------------------------------------------
(* Claims about text *)

TextOps == {"Text", "Textspan", "Span", "Textpath", "Title", "Desc"}

\* the text argument of a call of TextOps
TextOf(c) == IF c.op \in {"Text", "Textspan"} THEN c.args[2] ELSE c.args[1]

\* what a call of TextOps is to write before its text, whatever the text is
TextBefore(c) ==
    LET a == c.args
    IN  CASE c.op \in {"Text", "Textspan"} ->
                <<"<","t","e","x","t"," ","x","=","\"">> \o Numeral(a[1][1]) \o <<"\""," ","y","=","\"">> \o Numeral(a[1][2])
                \o <<"\""," ">> \o StylePart(a[3], <<">">>)
          [] c.op = "Span" ->
                IF a[2] = <<>> THEN <<>> ELSE <<"<","t","s","p","a","n"," ">> \o StylePart(a[2], <<">">>)
          [] c.op = "Textpath" ->
                <<"<","t","e","x","t"," ">> \o StylePart(a[3], <<">">>) \o <<"<","t","e","x","t","P","a","t","h"," ","x","l","i","n","k",":","h","r",
                      "e","f","=","\"">>
                \o a[2] \o <<"\"",">">>
          [] c.op = "Title" -> <<"<","t","i","t","l","e",">">>
          [] c.op = "Desc" -> <<"<","d","e","s","c",">">>

\* what a call of TextOps is to write after its text, whatever the text is
TextAfter(c) ==
    CASE c.op = "Text" -> <<"<","/","t","e","x","t",">","\n">>
      [] c.op = "Textspan" -> <<>>
      [] c.op = "Span" -> IF c.args[2] = <<>> THEN <<>> ELSE <<"<","/","t","s","p","a","n",">">>
      [] c.op = "Textpath" -> <<"<","/","t","e","x","t","P","a","t","h",">","<","/","t","e","x","t",">",
            "\n">>
      [] c.op = "Title" -> <<"<","/","t","i","t","l","e",">","\n">>
      [] c.op = "Desc" -> <<"<","/","d","e","s","c",">","\n">>

\* the entity references of escaped text, each with the character it stands for
EntityTable ==
    { << <<"&","l","t",";">>, "<" >>, << <<"&","g","t",";">>, ">" >>, << <<"&","a","m","p",";">>, "&" >>,
      << <<"&","#","3","4",";">>, "\"" >>, << <<"&","#","3","9",";">>, "'" >> }

\* the entities of EntityTable that m holds at index k
EntitiesAt(m, k) ==
    {e \in EntityTable : k + Len(e[1]) - 1 <= Len(m) /\ SubSeq(m, k, k + Len(e[1]) - 1) = e[1]}

\* the text an XML parser reads from the character data m, from index k on
RECURSIVE Decoded(_, _)
Decoded(m, k) ==
    IF k > Len(m) THEN <<>>
    ELSE IF EntitiesAt(m, k) # {}
      THEN LET e == CHOOSE e \in EntitiesAt(m, k) : TRUE
           IN  <<e[2]>> \o Decoded(m, k + Len(e[1]))
    ELSE <<m[k]>> \o Decoded(m, k + 1)

\* C8: every operation that accepts free-form display text passes it through
\* the escaper: none of its '<', '>' or '&' reaches the sink unescaped, the
\* text reads back unchanged, and the tags around it do not depend on it.
ThmC8_TextEscaped ==
    (calls # <<>> /\ LastCall.op \in TextOps) =>
        LET f    == Fragment(Len(calls))
            pre  == TextBefore(LastCall)
            post == TextAfter(LastCall)
            mid  == SubSeq(f, Len(pre) + 1, Len(f) - Len(post))
        IN  /\ Len(f) >= Len(pre) + Len(post)
            /\ SubSeq(f, 1, Len(pre)) = pre
            /\ SubSeq(f, Len(f) - Len(post) + 1, Len(f)) = post
            /\ \A k \in 1..Len(mid) :
                  /\ mid[k] \notin {"<", ">"}
                  /\ mid[k] = "&" => EntitiesAt(mid, k) # {}
            /\ Decoded(mid, 1) = TextOf(LastCall)

WitC8_TextWithMarkup ==
    /\ calls # <<>>
    /\ LastCall.op = "Text"
    /\ LastCall.args = << <<50, 7>>, <<"a","<","b",">","c">>, << <<"f","i","l","l",":","r","e","d">> >> >>
    /\ Fragment(Len(calls)) =
          <<"<","t","e","x","t"," ","x","=","\"","5","0","\""," ","y","=","\"","7","\"",
            " ","s","t","y","l","e","=","\"","f","i","l","l",":","r","e","d","\""," ",
            ">","a","&","l","t",";","b","&","g","t",";","c","<","/","t","e","x","t",
            ">","\n">>

----------------------------------------------------------------------------
(* Filter primitives *)

\* A float64 argument is modelled by the number of hundredths it holds: 150
\* is 1.5, -25 is -0.25.  fmt's %g verb writes such a value with the fewest
\* digits that give it back: no fraction when it is whole, else one or two
\* fraction digits.
fmtG(v) ==
    LET m     == IF v < 0 THEN 0 - v ELSE v
        whole == natStr(m \div 100)
        frac  == m % 100
    IN  (IF v < 0 THEN <<"-">> ELSE <<>>)
        \o whole
        \o (IF frac = 0 THEN <<>>
            ELSE IF frac % 10 = 0 THEN <<".", Digit(frac \div 10)>>
            ELSE <<".", Digit(frac \div 10), Digit(frac % 10)>>)

LowerCase == <<"a","b","c","d","e","f","g","h","i","j","k","l","m","n","o","p","q","r",
      "s","t","u","v","w","x","y","z">>

UpperCase == <<"A","B","C","D","E","F","G","H","I","J","K","L","M","N","O","P","Q","R",
      "S","T","U","V","W","X","Y","Z">>

\* strings.ToUpper
ToUpper(s) ==
    [i \in 1..Len(s) |->
        IF \E k \in 1..26 : LowerCase[k] = s[i]
        THEN UpperCase[CHOOSE k \in 1..26 : LowerCase[k] = s[i]]
        ELSE s[i]]

imgchannelAnyCase(c) ==
    LET u == ToUpper(c)
    IN  CASE u \in { <<"R">>, <<"R","E","D">> } -> <<"R">>
          [] u \in { <<"G">>, <<"G","R","E","E","N">> } -> <<"G">>
          [] u \in { <<"B">>, <<"B","L","U","E">> } -> <<"B">>
          [] u \in { <<"A">>, <<"A","L","P","H","A">> } -> <<"A">>
          [] OTHER -> <<"R">>

\* imgchannel validates the image channel indicator
imgchannel(c) ==
    CASE c \in { <<"R">>, <<"G">>, <<"B">>, <<"A">> } -> c
      [] c \in { <<"r">>, <<"g">>, <<"b">>, <<"a">> } -> ToUpper(c)
      [] c \in { <<"r","e","d">>, <<"g","r","e","e","n">>, <<"b","l","u","e">>, <<"a","l","p","h","a">> } -> ToUpper(SubSeq(c, 1, 1))
      [] c \in { <<"R","e","d">>, <<"G","r","e","e","n">>, <<"B","l","u","e">>, <<"A","l","p","h","a">> } -> SubSeq(c, 1, 1)
      [] OTHER -> <<"R">>

fsattrKeepEmpty(s) ==
    <<"i","n","=","\"">> \o s.In \o <<"\""," ","i","n","2","=","\"">> \o s.In2 \o <<"\""," ","r","e","s","u","l","t","=","\"">> \o s.Result \o <<"\""," ">>

\* fsattr returns the XML attribute representation of a filterspec, ignoring
\* empty attributes
fsattr(s) ==
    (IF Len(s.In) > 0 THEN <<"i","n","=","\"">> \o s.In \o <<"\""," ">> ELSE <<>>)
    \o (IF Len(s.In2) > 0 THEN <<"i","n","2","=","\"">> \o s.In2 \o <<"\""," ">> ELSE <<>>)
    \o (IF Len(s.Result) > 0 THEN <<"r","e","s","u","l","t","=","\"">> \o s.Result \o <<"\""," ">> ELSE <<>>)

FeBlendWritesUnchecked(fs, mode, s) ==
    << <<"<","f","e","B","l","e","n","d"," ">> \o fsattr(fs) \o <<" ","m","o","d","e","=","\"">> \o mode \o <<"\""," ">>
         \o endstyle(s, emptyclose) >>

\* FeBlend specifies a Blend filter primitive
FeBlendWrites(fs, mode, s) ==
    LET m == IF mode \in { <<"n","o","r","m","a","l">>, <<"m","u","l","t","i","p","l","y">>, <<"s","c","r","e","e","n">>, <<"d","a","r","k","e","n">>, <<"l","i","g","h","t","e","n">> }
             THEN mode ELSE <<"n","o","r","m","a","l">>
    IN  << <<"<","f","e","B","l","e","n","d"," ">> \o fsattr(fs) \o <<" ","m","o","d","e","=","\"">> \o m \o <<"\""," ">>
             \o endstyle(s, emptyclose) >>

\* FeComposite specifies a feComposite filter primitive
FeCompositeWrites(fs, operator, k1, k2, k3, k4, s) ==
    LET op == IF operator \in { <<"o","v","e","r">>, <<"i","n">>, <<"o","u","t">>, <<"a","t","o","p">>, <<"x","o","r">>, <<"a","r","i","t","h","m","e","t","i","c">> }
              THEN operator ELSE <<"o","v","e","r">>
    IN  << <<"<","f","e","C","o","m","p","o","s","i","t","e"," ">> \o fsattr(fs) \o <<" ","o","p","e","r","a","t","o","r","=","\"">> \o op
             \o <<"\""," ","k","1","=","\"">> \o fmtD(k1) \o <<"\""," ","k","2","=","\"">> \o fmtD(k2)
             \o <<"\""," ","k","3","=","\"">> \o fmtD(k3) \o <<"\""," ","k","4","=","\"">> \o fmtD(k4)
             \o <<"\""," ">> \o endstyle(s, emptyclose) >>

\* FeDisplacementMap specifies a feDisplacementMap filter primitive: the x
\* channel goes through imgchannel, the y channel is formatted as given
FeDisplacementMapWrites(fs, scale, xchannel, ychannel, s) ==
    << <<"<","f","e","D","i","s","p","l","a","c","e","m","e","n","t","M","a","p",
         " ">> \o fsattr(fs) \o <<" ","s","c","a","l","e","=","\"">> \o fmtG(scale)
         \o <<"\""," ","x","C","h","a","n","n","e","l","S","e","l","e","c","t","o","r",
              "=","\"">> \o imgchannel(xchannel)
         \o <<"\""," ","y","C","h","a","n","n","e","l","S","e","l","e","c","t","o","r",
              "=","\"">> \o ychannel
         \o <<"\""," ">> \o endstyle(s, emptyclose) >>

\* FeMorphology specifies a feMorphologyLight filter primitive
FeMorphologyWrites(fs, operator, xradius, yradius, s) ==
    LET op == IF operator \in { <<"e","r","o","d","e">>, <<"d","i","l","a","t","e">> } THEN operator ELSE <<"e","r","o","d","e">>
    IN  << <<"<","f","e","M","o","r","p","h","o","l","o","g","y"," ">> \o fsattr(fs) \o <<" ","o","p","e","r","a","t","o","r","=","\"">> \o op
             \o <<"\""," ","r","a","d","i","u","s","=","\"">> \o fmtG(xradius) \o <<" ">> \o fmtG(yradius)
             \o <<"\""," ">> \o endstyle(s, emptyclose) >>

----------------------------------------------------------------------------
(* A program that makes one call of a filter primitive *)

Filterspecs ==
    { [In |-> <<>>, In2 |-> <<>>, Result |-> <<>>],
      [In |-> <<"S","o","u","r","c","e","G","r","a","p","h","i","c">>, In2 |-> <<>>, Result |-> <<"r","1">>] }

BlendModes == { <<"n","o","r","m","a","l">>, <<"m","u","l","t","i","p","l","y">>, <<"s","c","r","e","e","n">>, <<"d","a","r","k","e","n">>, <<"l","i","g","h","t","e","n">> }

CompositeOperators == { <<"o","v","e","r">>, <<"i","n">>, <<"o","u","t">>, <<"a","t","o","p">>, <<"x","o","r">>, <<"a","r","i","t","h","m","e","t","i","c">> }

MorphologyOperators == { <<"e","r","o","d","e">>, <<"d","i","l","a","t","e">> }

ChannelLetters == { <<"R">>, <<"G">>, <<"B">>, <<"A">> }

\* channel arguments: letters, lower case, names, and strings that name none
ChannelArgs ==
    ChannelLetters \cup { <<"g">>, <<"b","l","u","e">>, <<"A","l","p","h","a">>, <<"x">>, <<>> }

FeBlend ==
    /\ Len(calls) < MaxOpCalls
    /\ \E fs \in Filterspecs, mode \in BlendModes \cup { <<>>, <<"N","o","r","m","a","l">>, <<"o","v","e","r","l","a","y">> },
          s \in { <<>> } :
          Do("FeBlend", <<fs, mode, s>>, FeBlendWrites(fs, mode, s))

FeComposite ==
    /\ Len(calls) < MaxOpCalls
    /\ \E fs \in Filterspecs, op \in CompositeOperators \cup { <<>>, <<"O","v","e","r">>, <<"p","l","u","s">> },
          k \in { <<1, 0, -3, 7>> }, s \in { <<>> } :
          Do("FeComposite", <<fs, op, k, s>>,
             FeCompositeWrites(fs, op, k[1], k[2], k[3], k[4], s))

FeMorphology ==
    /\ Len(calls) < MaxOpCalls
    /\ \E fs \in Filterspecs, op \in MorphologyOperators \cup { <<>>, <<"E","r","o","d","e">>, <<"o","p","e","n">> },
          r \in { <<150, 0>>, <<-200, 25>> }, s \in { <<>> } :
          Do("FeMorphology", <<fs, op, r, s>>, FeMorphologyWrites(fs, op, r[1], r[2], s))

FeDisplacementMap ==
    /\ Len(calls) < MaxOpCalls
    /\ \E fs \in { [In |-> <<>>, In2 |-> <<>>, Result |-> <<>>] }, scale \in { 150 },
          xc \in ChannelArgs, yc \in ChannelArgs, s \in { <<>> } :
          Do("FeDisplacementMap", <<fs, scale, xc, yc, s>>,
             FeDisplacementMapWrites(fs, scale, xc, yc, s))

NextFilter == FeBlend \/ FeComposite \/ FeMorphology \/ FeDisplacementMap

SpecFilter == InitEmitter /\ [][NextFilter]_vars

----------------------------------------------------------------------------
(* Claims about filter primitives: attribute values are read back from the *)
(* sink                                                                    *)

\* the indices at which f holds the start of attribute name: a space, the
\* name, '=' and the opening quote
AttrStarts(f, name) ==
    LET pat == <<" ">> \o name \o <<"=","\"">>
    IN  {i \in 1..Len(f) :
            i + Len(pat) - 1 <= Len(f) /\ SubSeq(f, i, i + Len(pat) - 1) = pat}

HasAttr(f, name) == AttrStarts(f, name) # {}

\* the value of attribute name in f: what stands between its quotes
AttrValue(f, name) ==
    LET from == Least(AttrStarts(f, name)) + Len(name) + 3
    IN  SubSeq(f, from, FirstOf(f, from, {"\""}) - 1)

StartsWith(f, pre) == Len(f) >= Len(pre) /\ SubSeq(f, 1, Len(pre)) = pre

EndsWith(f, post) == Len(f) >= Len(post) /\ SubSeq(f, Len(f) - Len(post) + 1, Len(f)) = post

\* the keyword argument of the last call is written as attribute name of
\* element elem: unchanged when allowed, else as the default
KeywordDefaulted(elem, name, allowed, default) ==
    LET f == Fragment(Len(calls))
        k == LastCall.args[2]
    IN  /\ StartsWith(f, <<"<">> \o elem \o <<" ">>)
        /\ EndsWith(f, <<"/",">","\n">>)
        /\ HasAttr(f, name)
        /\ AttrValue(f, name) \in allowed
        /\ AttrValue(f, name) = (IF k \in allowed THEN k ELSE default)

\* C9: enumerated keywords are silently defaulted, never rejected: FeBlend
\* writes the mode unchanged when it is normal, multiply, screen, darken or
\* lighten and "normal" otherwise; FeComposite the operator unchanged when it
\* is over, in, out, atop, xor or arithmetic and "over" otherwise;
\* FeMorphology erode or dilate unchanged and "erode" otherwise; the keyword
\* written is always an allowed one and the element is still written.
ThmC9_KeywordsDefaulted ==
    calls # <<>> =>
        /\ status = "ok"
        /\ LastCall.op = "FeBlend" =>
              KeywordDefaulted(<<"f","e","B","l","e","n","d">>, <<"m","o","d","e">>,
                               { <<"n","o","r","m","a","l">>, <<"m","u","l","t","i","p","l","y">>, <<"s","c","r","e","e","n">>, <<"d","a","r","k","e","n">>, <<"l","i","g","h","t","e","n">> },
                               <<"n","o","r","m","a","l">>)
        /\ LastCall.op = "FeComposite" =>
              KeywordDefaulted(<<"f","e","C","o","m","p","o","s","i","t","e">>, <<"o","p","e","r","a","t","o","r">>,
                               { <<"o","v","e","r">>, <<"i","n">>, <<"o","u","t">>, <<"a","t","o","p">>, <<"x","o","r">>, <<"a","r","i","t","h","m","e","t","i","c">> },
                               <<"o","v","e","r">>)
        /\ LastCall.op = "FeMorphology" =>
              KeywordDefaulted(<<"f","e","M","o","r","p","h","o","l","o","g","y">>, <<"o","p","e","r","a","t","o","r">>,
                               { <<"e","r","o","d","e">>, <<"d","i","l","a","t","e">> }, <<"e","r","o","d","e">>)

WitC9_UnknownModeDefaulted ==
    /\ calls # <<>>
    /\ LastCall.op = "FeBlend"
    /\ LastCall.args[2] = <<"o","v","e","r","l","a","y">>
    /\ LastCall.args[1].In = <<>>
    /\ Fragment(Len(calls)) = <<"<","f","e","B","l","e","n","d"," "," ","m","o","d","e","=","\"","n","o",
          "r","m","a","l","\""," ","/",">","\n">>

\* C10: for every pair of xchannel and ychannel strings passed to
\* FeDisplacementMap, both the xChannelSelector and the yChannelSelector
\* written are one of R, G, B, A, an unrecognized value becoming R.
CexC10_BothChannelsValidated ==
    (calls # <<>> /\ LastCall.op = "FeDisplacementMap") =>
        LET f  == Fragment(Len(calls))
            xc == LastCall.args[3]
            yc == LastCall.args[4]
        IN  /\ AttrValue(f, <<"x","C","h","a","n","n","e","l","S","e","l","e","c","t","o","r">>) \in { <<"R">>, <<"G">>, <<"B">>, <<"A">> }
            /\ AttrValue(f, <<"y","C","h","a","n","n","e","l","S","e","l","e","c","t","o","r">>) \in { <<"R">>, <<"G">>, <<"B">>, <<"A">> }
            /\ xc \in { <<"x">>, <<>> } => AttrValue(f, <<"x","C","h","a","n","n","e","l","S","e","l","e","c","t","o","r">>) = <<"R">>
            /\ yc \in { <<"x">>, <<>> } => AttrValue(f, <<"y","C","h","a","n","n","e","l","S","e","l","e","c","t","o","r">>) = <<"R">>

----------------------------------------------------------------------------
(* imgchannel and fsattr applied to bounded inputs *)

ChannelNames == << <<"r","e","d">>, <<"g","r","e","e","n">>, <<"b","l","u","e">>, <<"a","l","p","h","a">> >>

\* every spelling of w in upper and lower case letters
CaseVariants(w) ==
    { [i \in 1..Len(w) |-> IF b[i] THEN ToUpper(<<w[i]>>)[1] ELSE w[i]] :
        b \in [1..Len(w) -> BOOLEAN] }

\* channel strings: every spelling of the four names and of their letters,
\* and strings that spell none
ChannelInputs ==
    UNION { CaseVariants(ChannelNames[k]) \cup CaseVariants(SubSeq(ChannelNames[k], 1, 1)) :
              k \in 1..4 }
    \cup { <<>>, <<"x">>, <<"r","e","d","d">>, <<"R","G">>, <<"c","y","a","n">> }

\* values of a Filterspec field
FilterspecValues == { <<>>, <<"a">>, <<"S","o","u","r","c","e","G","r","a","p","h","i","c">>, <<"b","&","c">> }

InitHelpers ==
    /\ sink = <<>>
    /\ calls = <<>>
    /\ status = "ok"
    /\ reads = 0
    /\ \/ \E c \in ChannelInputs :
             app = [fn |-> "imgchannel", c |-> c, done |-> FALSE, ret |-> <<>>]
       \/ \E i \in FilterspecValues, i2 \in FilterspecValues, r \in FilterspecValues :
             app = [fn |-> "fsattr", s |-> [In |-> i, In2 |-> i2, Result |-> r],
                    done |-> FALSE, ret |-> <<>>]

ApplyImgchannel ==
    /\ app.fn = "imgchannel"
    /\ ~app.done
    /\ app' = [app EXCEPT !.done = TRUE, !.ret = imgchannel(app.c)]
    /\ UNCHANGED <<sink, calls, status, reads>>

ApplyFsattr ==
    /\ app.fn = "fsattr"
    /\ ~app.done
    /\ app' = [app EXCEPT !.done = TRUE, !.ret = fsattr(app.s)]
    /\ UNCHANGED <<sink, calls, status, reads>>

NextHelpers == ApplyImgchannel \/ ApplyFsattr

SpecHelpers == InitHelpers /\ [][NextHelpers]_vars

----------------------------------------------------------------------------
(* Claims about imgchannel *)

\* the canonical letter of channel k
ChannelLetter(k) == ToUpper(SubSeq(ChannelNames[k], 1, 1))

\* the channels of which c is a spelling, in any combination of cases, of the
\* name or of the letter
SpelledChannels(c) ==
    {k \in 1..4 : c \in CaseVariants(ChannelNames[k])
                    \cup CaseVariants(SubSeq(ChannelNames[k], 1, 1))}

\* the channels of which c is one of the four spellings the switch lists: the
\* upper-case letter, the lower-case letter, the lower-case name, the
\* capitalised name
ListedChannels(c) ==
    {k \in 1..4 :
        LET name == ChannelNames[k]
        IN  c \in { ChannelLetter(k), SubSeq(name, 1, 1), name,
                    ChannelLetter(k) \o SubSeq(name, 2, Len(name)) }}

\* C11: imgchannel is case- and alias-insensitive: every spelling of a
\* channel's full name or of its single letter, in any combination of upper
\* and lower case, maps to the channel's upper-case letter; every other input
\* maps to "R"; the result is always one of R, G, B, A.
CexC11_AnyCaseSpelling ==
    (app.fn = "imgchannel" /\ app.done) =>
        /\ app.ret \in { <<"R">>, <<"G">>, <<"B">>, <<"A">> }
        /\ \A k \in SpelledChannels(app.c) : app.ret = ChannelLetter(k)
        /\ SpelledChannels(app.c) = {} => app.ret = <<"R">>

\* C11 amended: the upper-case letter, the lower-case letter, the lower-case
\* name and the capitalised name of a channel map to its upper-case letter;
\* every other input, the other case combinations included ("GREEN", "bLue"),
\* maps to "R"; the result is always one of R, G, B, A.
ThmC11_ListedSpellings ==
    (app.fn = "imgchannel" /\ app.done) =>
        /\ app.ret \in { <<"R">>, <<"G">>, <<"B">>, <<"A">> }
        /\ \A k \in ListedChannels(app.c) : app.ret = ChannelLetter(k)
        /\ ListedChannels(app.c) = {} => app.ret = <<"R">>

WitC11_UpperCaseNameDefaulted ==
    /\ app.fn = "imgchannel"
    /\ app.done
    /\ app.c = <<"G","R","E","E","N">>
    /\ app.ret = <<"R">>

----------------------------------------------------------------------------
(* Claims about fsattr *)

FieldNames == << <<"i","n">>, <<"i","n","2">>, <<"r","e","s","u","l","t">> >>

FieldOf(s, k) == CASE k = 1 -> s.In [] k = 2 -> s.In2 [] k = 3 -> s.Result

\* C18: fsattr(spec) emits exactly one attribute for each non-empty field of
\* the Filterspec, in the fixed order in, in2, result, with the field's value
\* substituted literally, and nothing for an empty field; for the all-empty
\* Filterspec it returns the empty string.
ThmC18_FsattrFields ==
    (app.fn = "fsattr" /\ app.done) =>
        LET f    == <<" ">> \o app.ret
            set  == {k \in 1..3 : FieldOf(app.s, k) # <<>>}
            at(k) == Least(AttrStarts(f, FieldNames[k]))
        IN  /\ \A k \in 1..3 :
                  IF k \in set
                  THEN /\ Cardinality(AttrStarts(f, FieldNames[k])) = 1
                       /\ AttrValue(f, FieldNames[k]) = FieldOf(app.s, k)
                  ELSE ~HasAttr(f, FieldNames[k])
            /\ \A j \in set, k \in set : j < k => at(j) < at(k)
            /\ Cardinality({i \in 1..Len(f) : f[i] = "="}) = Cardinality(set)
            /\ set = {} => app.ret = <<>>

WitC18_InAndResultOnly ==
    /\ app.fn = "fsattr"
    /\ app.done
    /\ app.s = [In |-> <<"S","o","u","r","c","e","G","r","a","p","h","i","c">>, In2 |-> <<>>, Result |-> <<"b","&","c">>]
    /\ app.ret = <<"i","n","=","\"","S","o","u","r","c","e","G","r","a","p","h","i","c","\"",
          " ","r","e","s","u","l","t","=","\"","b","&","c","\""," ">>

----------------------------------------------------------------------------
(* Operations that write numeric arguments *)

\* fmt's %.2f verb for a value held in hundredths
fmtF2(v) ==
    LET m == IF v < 0 THEN 0 - v ELSE v
    IN  (IF v < 0 THEN <<"-">> ELSE <<>>)
        \o natStr(m \div 100) \o <<".", Digit((m % 100) \div 10), Digit(m % 10)>>

\* dim returns the dimension string (x, y coordinates and width, height)
dim(x, y, w, h) ==
    <<"x","=","\"">> \o fmtD(x) \o <<"\""," ","y","=","\"">> \o fmtD(y)
    \o <<"\""," ","w","i","d","t","h","=","\"">> \o fmtD(w) \o <<"\""," ","h","e","i","g","h","t","=","\"">> \o fmtD(h) \o <<"\"">>

\* Line draws a straight line between two points, with optional style
LineWrites(x1, y1, x2, y2, s) ==
    << <<"<","l","i","n","e"," ","x","1","=","\"">> \o fmtD(x1) \o <<"\""," ","y","1","=","\"">> \o fmtD(y1)
         \o <<"\""," ","x","2","=","\"">> \o fmtD(x2) \o <<"\""," ","y","2","=","\"">> \o fmtD(y2)
         \o <<"\""," ">> \o endstyle(s, emptyclose) >>

FeColorMatrixHueWritesClamped(fs, value, s) ==
    LET v == IF value < -36000 THEN -36000 ELSE IF value > 36000 THEN 36000 ELSE value
    IN  << <<"<","f","e","C","o","l","o","r","M","a","t","r","i","x"," ">> \o fsattr(fs) \o <<" ","t","y","p","e","=","\"","h","u","e","R","o","t","a","t","e","\""," ",
          "v","a","l","u","e","s","=","\"">>
             \o fmtG(v) \o <<"\""," ">> \o endstyle(s, emptyclose) >>

\* FeColorMatrixHue specifies a color matrix filter primitive, with hue
\* rotation values (360 degrees are 36000 hundredths)
FeColorMatrixHueWrites(fs, value, s) ==
    LET v == IF value < -36000 \/ value > 36000 THEN 0 ELSE value
    IN  << <<"<","f","e","C","o","l","o","r","M","a","t","r","i","x"," ">> \o fsattr(fs) \o <<" ","t","y","p","e","=","\"","h","u","e","R","o","t","a","t","e","\""," ",
          "v","a","l","u","e","s","=","\"">>
             \o fmtG(v) \o <<"\""," ">> \o endstyle(s, emptyclose) >>

\* FeColorMatrixSaturate specifies a color matrix filter primitive, with
\* saturation values
FeColorMatrixSaturateWrites(fs, value, s) ==
    LET v == IF value < 0 \/ value > 100 THEN 100 ELSE value
    IN  << <<"<","f","e","C","o","l","o","r","M","a","t","r","i","x"," ">> \o fsattr(fs) \o <<" ","t","y","p","e","=","\"","s","a","t","u","r","a","t","e","\""," ","v",
          "a","l","u","e","s","=","\"">>
             \o fmtG(v) \o <<"\""," ">> \o endstyle(s, emptyclose) >>

FeGaussianBlurWritesUnchecked(fs, stdx, stdy, s) ==
    << <<"<","f","e","G","a","u","s","s","i","a","n","B","l","u","r"," ">> \o fsattr(fs) \o <<" ","s","t","d","D","e","v","i","a","t","i","o","n","=","\"">>
         \o fmtG(stdx) \o <<" ">> \o fmtG(stdy) \o <<"\""," ">> \o endstyle(s, emptyclose) >>

\* FeGaussianBlur specifies a Gaussian Blur filter primitive
FeGaussianBlurWrites(fs, stdx, stdy, s) ==
    LET sx == IF stdx < 0 THEN 0 ELSE stdx
        sy == IF stdy < 0 THEN 0 ELSE stdy
    IN  << <<"<","f","e","G","a","u","s","s","i","a","n","B","l","u","r"," ">> \o fsattr(fs) \o <<" ","s","t","d","D","e","v","i","a","t","i","o","n","=","\"">>
             \o fmtG(sx) \o <<" ">> \o fmtG(sy) \o <<"\""," ">> \o endstyle(s, emptyclose) >>

\* FeTurbulence specifies a turbulence filter primitive.  ftype[0:1] of the
\* empty string is out of range: the call panics before it writes.
FeTurbulenceRun(fs, ftype, bfx, bfy, octaves, seed, stitch, s) ==
    IF Len(ftype) = 0
    THEN [ws |-> <<>>, reads |-> 0, panic |-> TRUE]
    ELSE LET bx == IF bfx < 0 \/ bfx > 100 THEN 0 ELSE bfx
             by == IF bfy < 0 \/ bfy > 100 THEN 0 ELSE bfy
             ft == IF ftype[1] \in {"f", "F"} THEN <<"f","r","a","c","t","a","l","N","o","i","s","e">> ELSE <<"t","u","r","b","u","l","e","n","c","e">>
             ss == IF stitch THEN <<"s","t","i","t","c","h">> ELSE <<"n","o","S","t","i","t","c","h">>
         IN  [ws |-> << <<"<","f","e","T","u","r","b","u","l","e","n","c","e"," ">> \o fsattr(fs) \o <<" ","t","y","p","e","=","\"">> \o ft
                          \o <<"\""," ","b","a","s","e","F","r","e","q","u","e","n","c","y","=","\"">> \o fmtF2(bx) \o <<" ">> \o fmtF2(by)
                          \o <<"\""," ","n","u","m","O","c","t","a","v","e","s","=","\"">> \o fmtD(octaves)
                          \o <<"\""," ","s","e","e","d","=","\"">> \o fmtD(seed)
                          \o <<"\""," ","s","t","i","t","c","h","T","i","l","e","s","=","\"">> \o ss
                          \o <<"\""," ">> \o endstyle(s, emptyclose) >>,
              reads |-> 0, panic |-> FALSE]

----------------------------------------------------------------------------
(* A program that makes one call of an operation with numeric arguments *)

NoFilterspec == [In |-> <<>>, In2 |-> <<>>, Result |-> <<>>]

HueValues == { -36001, -36000, -4550, 0, 9000, 36000, 36001, 72000 }

SaturateValues == { -1, 0, 50, 100, 101, 250 }

Frequencies == { -1, 0, 25, 100, 101 }

Deviations == { -150, -1, 0, 25, 300 }

FeColorMatrixHue ==
    /\ Len(calls) < MaxOpCalls
    /\ \E fs \in Filterspecs, value \in HueValues, s \in { <<>> } :
          Do("FeColorMatrixHue", <<fs, value, s>>, FeColorMatrixHueWrites(fs, value, s))

FeColorMatrixSaturate ==
    /\ Len(calls) < MaxOpCalls
    /\ \E fs \in Filterspecs, value \in SaturateValues, s \in { <<>> } :
          Do("FeColorMatrixSaturate", <<fs, value, s>>,
             FeColorMatrixSaturateWrites(fs, value, s))

FeTurbulence ==
    /\ Len(calls) < MaxOpCalls
    /\ \E fs \in { NoFilterspec }, ftype \in { <<"f","r","a","c","t","a","l","N","o","i","s","e">>, <<"t">>, <<>> },
          bfx \in Frequencies, bfy \in Frequencies, os \in { <<2, -7>> },
          stitch \in { TRUE }, s \in { <<>> } :
          DoRun("FeTurbulence", <<fs, ftype, bfx, bfy, os[1], os[2], stitch, s>>,
                FeTurbulenceRun(fs, ftype, bfx, bfy, os[1], os[2], stitch, s))

FeGaussianBlur ==
    /\ Len(calls) < MaxOpCalls
    /\ \E fs \in { NoFilterspec }, stdx \in Deviations, stdy \in Deviations, s \in { <<>> } :
          Do("FeGaussianBlur", <<fs, stdx, stdy, s>>, FeGaussianBlurWrites(fs, stdx, stdy, s))

\* Roundrect draws a rounded rectangle
Roundrect ==
    /\ Len(calls) < MaxOpCalls
    /\ \E a \in { <<1, 2, 30, 40, 5, 6>>, <<-1, -2, -30, -40, -5, -6>>, <<0, 0, 0, -12, 0, 100>> },
          s \in { <<>>, << <<"f","i","l","l",":","r","e","d">> >> } :
          Do("Roundrect", <<a, s>>,
             << <<"<","r","e","c","t"," ">> \o dim(a[1], a[2], a[3], a[4]) \o <<" ","r","x","=","\"">> \o fmtD(a[5])
                  \o <<"\""," ","r","y","=","\"">> \o fmtD(a[6]) \o <<"\""," ">> \o endstyle(s, emptyclose) >>)

Line ==
    /\ Len(calls) < MaxOpCalls
    /\ \E a \in { <<0, 0, 10, 20>>, <<-10, 7, 0, -120>> }, s \in { <<>>, << <<"s","t","r","o","k","e",":","r","e","d">> >> } :
          Do("Line", <<a, s>>, LineWrites(a[1], a[2], a[3], a[4], s))

NextNum ==
    \/ FeColorMatrixHue \/ FeColorMatrixSaturate \/ FeTurbulence
    \/ FeGaussianBlur \/ Roundrect \/ Line

SpecNum == InitEmitter /\ [][NextNum]_vars

----------------------------------------------------------------------------
(* Claims about numeric arguments: the numerals are read back from the sink *)

DigitVal(c) == CHOOSE d \in 0..9 : Digit(d) = c

IsNumeral(t) == t # <<>> /\ \A i \in 1..Len(t) : \E d \in 0..9 : Digit(d) = t[i]

\* the natural number a string of decimal digits denotes
RECURSIVE NatVal(_)
NatVal(t) == IF t = <<>> THEN 0 ELSE 10 * NatVal(SubSeq(t, 1, Len(t) - 1)) + DigitVal(t[Len(t)])

\* the integer a numeral denotes
IntVal(t) == IF t[1] = "-" THEN 0 - NatVal(Tail(t)) ELSE NatVal(t)

\* the number of hundredths a numeral with at most two fraction digits denotes
HundredthsVal(t) ==
    LET neg  == t # <<>> /\ t[1] = "-"
        u    == IF neg THEN Tail(t) ELSE t
        dot  == FirstOf(u, 1, {"."})
        frac == SubSeq(u, dot + 1, Len(u))
        m    == 100 * NatVal(SubSeq(u, 1, dot - 1))
                + (IF Len(frac) = 1 THEN 10 * NatVal(frac) ELSE NatVal(frac))
    IN  IF neg THEN 0 - m ELSE m

\* a well-formed numeral of hundredths: digits, then at most two fraction digits
IsHundredths(t) ==
    LET u    == IF t # <<>> /\ t[1] = "-" THEN Tail(t) ELSE t
        dot  == FirstOf(u, 1, {"."})
    IN  /\ IsNumeral(SubSeq(u, 1, dot - 1))
        /\ dot <= Len(u) => (Len(u) - dot \in 1..2 /\ IsNumeral(SubSeq(u, dot + 1, Len(u))))

\* the two numerals of an attribute value of the form "a b"
PairOf(v) ==
    LET sp == FirstOf(v, 1, {" "})
    IN  <<SubSeq(v, 1, sp - 1), SubSeq(v, sp + 1, Len(v))>>

\* the number attribute name of the last fragment holds, in hundredths
Hundredths(name) == HundredthsVal(AttrValue(Fragment(Len(calls)), name))

\* the integer attribute name of the last fragment holds
Integer(name) == IntVal(AttrValue(Fragment(Len(calls)), name))

\* C12: range-checked filter parameters are reset, not clamped to the nearest
\* bound: FeColorMatrixHue emits the value unchanged when it lies in
\* [-360, 360] and 0 otherwise; FeColorMatrixSaturate the value unchanged
\* when it lies in [0, 1] and 1 otherwise; FeTurbulence each base frequency
\* unchanged when it lies in [0, 1] and 0 otherwise, x and y independently.
\* The bounds themselves are in range and no value of these parameters
\* raises an error.
ThmC12_RangeReset ==
    calls # <<>> =>
        LET a == LastCall.args
            f == Fragment(Len(calls))
        IN  /\ LastCall.op = "FeColorMatrixHue" =>
                  /\ status = "ok"
                  /\ IsHundredths(AttrValue(f, <<"v","a","l","u","e","s">>))
                  /\ Hundredths(<<"v","a","l","u","e","s">>) =
                        (IF -36000 <= a[2] /\ a[2] <= 36000 THEN a[2] ELSE 0)
            /\ LastCall.op = "FeColorMatrixSaturate" =>
                  /\ status = "ok"
                  /\ IsHundredths(AttrValue(f, <<"v","a","l","u","e","s">>))
                  /\ Hundredths(<<"v","a","l","u","e","s">>) = (IF 0 <= a[2] /\ a[2] <= 100 THEN a[2] ELSE 100)
            /\ (LastCall.op = "FeTurbulence" /\ a[2] # <<>>) =>
                  LET bf == PairOf(AttrValue(f, <<"b","a","s","e","F","r","e","q","u","e","n","c","y">>))
                  IN  /\ status = "ok"
                      /\ IsHundredths(bf[1]) /\ IsHundredths(bf[2])
                      /\ HundredthsVal(bf[1]) = (IF 0 <= a[3] /\ a[3] <= 100 THEN a[3] ELSE 0)
                      /\ HundredthsVal(bf[2]) = (IF 0 <= a[4] /\ a[4] <= 100 THEN a[4] ELSE 0)

WitC12_OneFrequencyReset ==
    /\ calls # <<>>
    /\ LastCall.op = "FeTurbulence"
    /\ status = "ok"
    /\ LastCall.args[3] = 101
    /\ LastCall.args[4] = 100
    /\ AttrValue(Fragment(Len(calls)), <<"b","a","s","e","F","r","e","q","u","e","n","c","y">>) = <<"0",".","0","0"," ","1",".","0","0">>

\* the numeric arguments of Roundrect, Line and FeTurbulence (octaves, seed)
\* are written with the value passed
PassedThrough ==
    LET a == LastCall.args
    IN  /\ LastCall.op = "Roundrect" =>
              /\ Integer(<<"x">>) = a[1][1] /\ Integer(<<"y">>) = a[1][2]
              /\ Integer(<<"w","i","d","t","h">>) = a[1][3] /\ Integer(<<"h","e","i","g","h","t">>) = a[1][4]
              /\ Integer(<<"r","x">>) = a[1][5] /\ Integer(<<"r","y">>) = a[1][6]
        /\ LastCall.op = "Line" =>
              /\ Integer(<<"x","1">>) = a[1][1] /\ Integer(<<"y","1">>) = a[1][2]
              /\ Integer(<<"x","2">>) = a[1][3] /\ Integer(<<"y","2">>) = a[1][4]
        /\ (LastCall.op = "FeTurbulence" /\ status = "ok") =>
              /\ Integer(<<"n","u","m","O","c","t","a","v","e","s">>) = a[5] /\ Integer(<<"s","e","e","d">>) = a[6]

----------------------------------------------------------------------------
(* Grid, followed statement by statement.  app holds the frame of the call *)
(* in progress: its arguments, the statement it is at (pc), the loop       *)
(* variable (i) and the number of lines it has drawn.  ix and iy stay far  *)
(* from the limits of int within MaxGridLines iterations.                  *)

GridArgs ==
    { <<0, 0, w, h, n>> : w \in {-1, 0, 2}, h \in {0, 1}, n \in {-1, 0, 1, 2} }

\* the call and its first statement: Gstyle(s[0]) when a style is given
GridCall ==
    /\ status = "ok"
    /\ Len(calls) < MaxOpCalls
    /\ app = NoApp \/ (app.fn = "Grid" /\ app.pc = "done")
    /\ \E a \in GridArgs, s \in { <<>>, << <<"s","t","r","o","k","e",":","g","r","a","y">> >> } :
          /\ sink' = sink \o (IF Len(s) > 0 THEN Flat(GstyleWrites(s[1])) ELSE <<>>)
          /\ app' = [fn |-> "Grid", done |-> FALSE, pc |-> "x", x |-> a[1], y |-> a[2],
                     w |-> a[3], h |-> a[4], n |-> a[5], s |-> s, i |-> a[1], lines |-> 0]
    /\ UNCHANGED <<calls, status, reads>>

\* one iteration of: for ix := x; ix <= x+w; ix += n { Line(ix, y, ix, y+h) }
GridXLine ==
    /\ app.fn = "Grid" /\ app.pc = "x"
    /\ app.i <= app.x + app.w
    /\ app.lines < MaxGridLines
    /\ sink' = sink \o Flat(LineWrites(app.i, app.y, app.i, app.y + app.h, <<>>))
    /\ app' = [app EXCEPT !.i = app.i + app.n, !.lines = app.lines + 1]
    /\ UNCHANGED <<calls, status, reads>>

\* the first loop ends, the second begins
GridXDone ==
    /\ app.fn = "Grid" /\ app.pc = "x"
    /\ ~(app.i <= app.x + app.w)
    /\ app' = [app EXCEPT !.pc = "y", !.i = app.y]
    /\ UNCHANGED <<sink, calls, status, reads>>

\* one iteration of: for iy := y; iy <= y+h; iy += n { Line(x, iy, x+w, iy) }
GridYLine ==
    /\ app.fn = "Grid" /\ app.pc = "y"
    /\ app.i <= app.y + app.h
    /\ app.lines < MaxGridLines
    /\ sink' = sink \o Flat(LineWrites(app.x, app.i, app.x + app.w, app.i, <<>>))
    /\ app' = [app EXCEPT !.i = app.i + app.n, !.lines = app.lines + 1]
    /\ UNCHANGED <<calls, status, reads>>

\* the second loop ends: Gend() when a style was given, and the call returns
GridReturn ==
    /\ app.fn = "Grid" /\ app.pc = "y"
    /\ ~(app.i <= app.y + app.h)
    /\ sink' = sink \o (IF Len(app.s) > 0 THEN Flat(GendWrites) ELSE <<>>)
    /\ calls' = Append(calls, [op |-> "Grid",
                               args |-> <<app.x, app.y, app.w, app.h, app.n, app.s>>,
                               end |-> Len(sink')])
    /\ app' = [app EXCEPT !.pc = "done", !.done = TRUE]
    /\ UNCHANGED <<status, reads>>

NextGrid == GridCall \/ GridXLine \/ GridXDone \/ GridYLine \/ GridReturn

SpecGrid == InitEmitter /\ [][NextGrid]_vars

\* C14: every public operation returns after a short, finite sequence of
\* writes for every argument value; in particular Grid(x, y, w, h, n)
\* terminates for every spacing n, n = 0 and n < 0 included.  A grid over w by
\* h has at most w + 1 vertical and h + 1 horizontal lines, so a call of Grid
\* that returns after a short sequence of writes never draws more.
CexC14_GridTerminates ==
    app.fn = "Grid" =>
        app.lines <= (IF app.w < 0 THEN 0 ELSE app.w + 1) + (IF app.h < 0 THEN 0 ELSE app.h + 1)

----------------------------------------------------------------------------
(* Rect *)

\* Rect draws a rectangle with upper left-hand corner at x,y, with width w,
\* and height h, with optional style: one printf for the tag, one for the
\* dimensions, one for each style item, one for the closing token
RectWrites(x, y, w, h, s) ==
    << <<"<","r","e","c","t"," ">>, dim(x, y, w, h) >>
    \o [i \in 1..Len(s) |->
          IF Index(s[i], "=") > 0 THEN <<" ">> \o s[i]
          ELSE <<" ","s","t","y","l","e","=","\"">> \o s[i] \o <<"\"">>]
    \o << <<" ">> \o emptyclose >>

----------------------------------------------------------------------------
(* An emitter whose Writer can fail.  Each Write the program issues is     *)
(* answered by the Writer: it takes the bytes, or it takes none and        *)
(* returns an error.                                                       *)

\* svg.Writer.Write(p): the byte count and the error it returns
Write(p, ok) == [n |-> IF ok THEN Len(p) ELSE 0, err |-> ~ok]

printResultNoError(resp) == [n |-> resp.n, err |-> FALSE]

\* what print, println and printf return: fmt.Fprint's results, unchanged
printResult(resp) == resp

\* the Writes of xml.Escape(w, t): for each character that has an entity,
\* the text since the last one and then the entity; at the end the rest
RECURSIVE escapeFrom(_, _, _)
escapeFrom(t, last, i) ==
    IF i > Len(t) THEN << SubSeq(t, last, Len(t)) >>
    ELSE IF escChar(t[i]) # <<t[i]>>
         THEN << SubSeq(t, last, i - 1), escChar(t[i]) >> \o escapeFrom(t, i + 1, i + 1)
         ELSE escapeFrom(t, last, i + 1)

escapePieces(t) == escapeFrom(t, 1, 1)

\* the statements of an operation that writes ws, the i-th through vias[i];
\* the one through "Escape" writes the text raw in pieces
Program(ws, vias, raw) ==
    [i \in 1..Len(ws) |->
        [via |-> vias[i], ps |-> IF vias[i] = "Escape" THEN escapePieces(raw) ELSE <<ws[i]>>]]

RECURSIVE issueUntilFailureFrom(_, _, _, _, _)
issueUntilFailureFrom(prog, si, pi, k, F) ==
    IF si > Len(prog) THEN <<>>
    ELSE IF pi > Len(prog[si].ps) THEN issueUntilFailureFrom(prog, si + 1, 1, k, F)
    ELSE LET resp == Write(prog[si].ps[pi], k \notin F)
             rec  == [step |-> si, via |-> prog[si].via, p |-> prog[si].ps[pi], resp |-> resp,
                      ret |-> IF prog[si].via = "Escape" THEN resp ELSE printResult(resp)]
         IN  <<rec>> \o (IF resp.err THEN <<>>
                         ELSE issueUntilFailureFrom(prog, si, pi + 1, k + 1, F))

IssueUntilFailure(prog, F) == issueUntilFailureFrom(prog, 1, 1, 1, F)

\* The Writes a call issues when the Writes numbered in F fail.  No statement
\* of the emitter looks at what print, println, printf or xml.Escape return,
\* so each statement runs whatever happened before; xml.Escape itself returns
\* at the first Write that fails.
RECURSIVE issueFrom(_, _, _, _, _)
issueFrom(prog, si, pi, k, F) ==
    IF si > Len(prog) THEN <<>>
    ELSE IF pi > Len(prog[si].ps) THEN issueFrom(prog, si + 1, 1, k, F)
    ELSE LET resp == Write(prog[si].ps[pi], k \notin F)
             rec  == [step |-> si, via |-> prog[si].via, p |-> prog[si].ps[pi], resp |-> resp,
                      ret |-> IF prog[si].via = "Escape" THEN resp ELSE printResult(resp)]
         IN  <<rec>> \o (IF resp.err /\ prog[si].via = "Escape"
                         THEN issueFrom(prog, si + 1, 1, k + 1, F)
                         ELSE issueFrom(prog, si, pi + 1, k + 1, F))

Issue(prog, F) == issueFrom(prog, 1, 1, 1, F)

\* the number of Writes of a program when none fails
RECURSIVE Pieces(_)
Pieces(prog) == IF prog = <<>> THEN 0 ELSE Len(Head(prog).ps) + Pieces(Tail(prog))

\* what the Writer took of the Writes issued
RECURSIVE Taken(_)
Taken(issued) ==
    IF issued = <<>> THEN <<>>
    ELSE SubSeq(Head(issued).p, 1, Head(issued).resp.n) \o Taken(Tail(issued))

\* A public call on a Writer that can fail
DoIssue(op, args, prog) ==
    /\ status = "ok"
    /\ \E F \in SUBSET (1..Pieces(prog)) :
          LET issued == Issue(prog, F)
          IN  /\ sink' = sink \o Taken(issued)
              /\ calls' = Append(calls, [op |-> op, args |-> args, end |-> Len(sink'),
                                         issued |-> issued])
    /\ UNCHANGED <<status, reads, app>>

TextProgram(x, y, t, s) == Program(TextWrites(x, y, t, s), <<"printf", "Escape", "println">>, t)

TitleProgram(t) == Program(TitleWrites(t), <<"print", "Escape", "println">>, t)

RectProgram(x, y, w, h, s) ==
    Program(RectWrites(x, y, w, h, s), [i \in 1..(Len(s) + 3) |-> "printf"], <<>>)

FailText ==
    /\ Len(calls) < MaxOpCalls
    /\ \E t \in { <<"a","<","b">>, <<"h","i">>, <<>> }, s \in { <<>>, << <<"f","i","l","l",":","r","e","d">> >> } :
          DoIssue("Text", <<3, 4, t, s>>, TextProgram(3, 4, t, s))

FailTitle ==
    /\ Len(calls) < MaxOpCalls
    /\ \E t \in { <<"a","&","b">>, <<"<">> } : DoIssue("Title", <<t>>, TitleProgram(t))

FailRect ==
    /\ Len(calls) < MaxOpCalls
    /\ \E s \in { <<>>, << <<"f","i","l","l",":","r","e","d">> >>, << <<"i","d","=","\"","r","\"">>, <<>> >> } :
          DoIssue("Rect", <<0, 0, 9, 12, s>>, RectProgram(0, 0, 9, 12, s))

NextFail == FailText \/ FailTitle \/ FailRect

SpecFail == InitEmitter /\ [][NextFail]_vars

----------------------------------------------------------------------------
(* Claims about a Writer that fails *)

ProgramOf(c) ==
    CASE c.op = "Text"  -> TextProgram(c.args[1], c.args[2], c.args[3], c.args[4])
      [] c.op = "Title" -> TitleProgram(c.args[1])
      [] c.op = "Rect"  -> RectProgram(c.args[1], c.args[2], c.args[3], c.args[4], c.args[5])

\* the Writes call c issued for its si-th statement
IssuedFor(c, si) == SelectSeq(c.issued, LAMBDA r : r.step = si)

\* print, println and printf hand back the Writer's byte count and error,
\* the Writer took exactly the Writes that did not fail, and no Write is
\* issued out of order
ResultsHandedBack(c) ==
    /\ \A i \in 1..Len(c.issued) :
          LET r == c.issued[i]
          IN  /\ r.via \in {"print", "println", "printf"} => r.ret = r.resp
              /\ r.resp.err => r.resp.n = 0
              /\ ~r.resp.err => r.resp.n = Len(r.p)
    /\ \A i \in 1..Len(c.issued), j \in 1..Len(c.issued) :
          i < j => c.issued[i].step <= c.issued[j].step

\* C15: a sink failure is never intercepted: print, println and printf hand
\* back the sink's byte count and error unchanged, and a public operation
\* that performs several writes issues exactly the same sequence of writes
\* whether earlier writes succeeded or failed; it neither retries, nor skips
\* the remaining writes, nor converts the failure into a different outcome.
CexC15_SameWritesAfterFailure ==
    \A n \in 1..Len(calls) :
        LET c == calls[n]
        IN  "issued" \in DOMAIN c =>
              /\ ResultsHandedBack(c)
              /\ \A si \in 1..Len(ProgramOf(c)) :
                    [i \in 1..Len(IssuedFor(c, si)) |-> IssuedFor(c, si)[i].p]
                       = ProgramOf(c)[si].ps
              /\ status = "ok"

\* C15 amended: print, println and printf hand back the sink's byte count and
\* error unchanged, and a public operation runs every one of its statements
\* that write (print, println, printf, xml.Escape) whether earlier writes
\* succeeded or failed: it neither retries, nor skips a statement, nor
\* converts the failure into a different outcome.  Within one xml.Escape of a
\* text that holds characters to escape, the text is written in pieces and
\* the pieces after a failed one are not written.
ThmC15_StatementsRunAfterFailure ==
    \A n \in 1..Len(calls) :
        LET c == calls[n]
        IN  "issued" \in DOMAIN c =>
              /\ ResultsHandedBack(c)
              /\ \A si \in 1..Len(ProgramOf(c)) :
                    LET recs == IssuedFor(c, si)
                        ps   == ProgramOf(c)[si].ps
                    IN  /\ Len(recs) \in 1..Len(ps)
                        /\ \A i \in 1..Len(recs) : recs[i].p = ps[i]
                        /\ \A i \in 1..(Len(recs) - 1) : ~recs[i].resp.err
                        /\ Len(recs) < Len(ps) =>
                              (recs[Len(recs)].resp.err /\ recs[1].via = "Escape")
              /\ Fragment(n) = Taken(c.issued)
              /\ status = "ok"

WitC15_ClosingTagAfterFailedText ==
    /\ calls # <<>>
    /\ LastCall.op = "Text"
    /\ LastCall.args[3] = <<"a","<","b">>
    /\ Len(LastCall.issued) = 3
    /\ LastCall.issued[1].resp.err
    /\ LastCall.issued[2].resp.err
    /\ ~LastCall.issued[3].resp.err
    /\ sink = <<"<","/","t","e","x","t",">","\n">>

----------------------------------------------------------------------------
(* Gradients *)

pctUnclamped(n) == n

\* pct returns a percetage, capped at 100 (n is a uint8: 0..255)
pct(n) == IF n > 100 THEN 100 ELSE n

\* stopcolor is a utility function used by the gradient functions to define
\* a sequence of offsets (expressed as percentages) and colors: one printf
\* for each Offcolor
stopcolor(oc) ==
    [i \in 1..Len(oc) |->
        <<"<","s","t","o","p"," ","o","f","f","s","e","t","=","\"">> \o fmtD(pct(oc[i].Offset)) \o <<"%","\""," ","s","t","o","p","-","c","o","l","o","r","=","\"">> \o oc[i].Color
        \o <<"\""," ","s","t","o","p","-","o","p","a","c","i","t","y","=","\"">> \o fmtF2(oc[i].Opacity) \o <<"\"","/",">","\n">>]

\* LinearGradient constructs a linear color gradient identified by id, along
\* the vector defined by (x1,y1), and (x2,y2)
LinearGradientWrites(id, x1, y1, x2, y2, sc) ==
    << <<"<","l","i","n","e","a","r","G","r","a","d","i","e","n","t"," ","i","d",
         "=","\"">> \o id \o <<"\""," ","x","1","=","\"">> \o fmtD(pct(x1))
         \o <<"%","\""," ","y","1","=","\"">> \o fmtD(pct(y1)) \o <<"%","\""," ","x","2","=","\"">> \o fmtD(pct(x2))
         \o <<"%","\""," ","y","2","=","\"">> \o fmtD(pct(y2)) \o <<"%","\"",">","\n">> >>
    \o stopcolor(sc) \o << println(<<"<","/","l","i","n","e","a","r","G","r","a","d","i","e","n","t",">">>) >>

\* RadialGradient constructs a radial color gradient identified by id,
\* centered at (cx,cy), with a radius of r; (fx, fy) is the focal point
RadialGradientWrites(id, cx, cy, r, fx, fy, sc) ==
    << <<"<","r","a","d","i","a","l","G","r","a","d","i","e","n","t"," ","i","d",
         "=","\"">> \o id \o <<"\""," ","c","x","=","\"">> \o fmtD(pct(cx))
         \o <<"%","\""," ","c","y","=","\"">> \o fmtD(pct(cy)) \o <<"%","\""," ","r","=","\"">> \o fmtD(pct(r))
         \o <<"%","\""," ","f","x","=","\"">> \o fmtD(pct(fx)) \o <<"%","\""," ","f","y","=","\"">> \o fmtD(pct(fy)) \o <<"%","\"",">","\n">> >>
    \o stopcolor(sc) \o << println(<<"<","/","r","a","d","i","a","l","G","r","a","d","i","e","n","t",">">>) >>

----------------------------------------------------------------------------
(* A program that applies pct, or makes one call of a gradient operation *)

Uint8 == 0..255

Offcolors ==
    { [Offset |-> 100, Color |-> <<"r","e","d">>, Opacity |-> 100],
      [Offset |-> 150, Color |-> <<"b","l","u","e">>, Opacity |-> 50] }

ApplyPct ==
    /\ app = NoApp
    /\ calls = <<>>
    /\ \E n \in Uint8 : app' = [fn |-> "pct", n |-> n, done |-> TRUE, ret |-> pct(n)]
    /\ UNCHANGED <<sink, calls, status, reads>>

LinearGradient ==
    /\ app = NoApp
    /\ Len(calls) < MaxOpCalls
    /\ \E id \in { <<"g">> }, c \in { <<0, 50, 100, 101>>, <<255, 99, 150, 7>> },
          sc \in SeqUpTo(Offcolors, MaxStops) :
          Do("LinearGradient", <<id, c, sc>>,
             LinearGradientWrites(id, c[1], c[2], c[3], c[4], sc))

RadialGradient ==
    /\ app = NoApp
    /\ Len(calls) < MaxOpCalls
    /\ \E id \in { <<"g">> },
          c \in { <<0, 50, 100, 101, 7>>, <<255, 100, 150, 0, 200>> },
          sc \in SeqUpTo(Offcolors, MaxStops) :
          Do("RadialGradient", <<id, c, sc>>,
             RadialGradientWrites(id, c[1], c[2], c[3], c[4], c[5], sc))

NextGradient == ApplyPct \/ LinearGradient \/ RadialGradient

SpecGradient == InitEmitter /\ [][NextGradient]_vars

----------------------------------------------------------------------------
(* Claims about percentages *)

\* the elements of a set of numbers in increasing order
SortedSeq(S) ==
    CHOOSE q \in [1..Cardinality(S) -> S] : \A i \in 1..Cardinality(S), j \in 1..Cardinality(S) :
        i < j => q[i] < q[j]

\* the values of the attributes called name in f, in the order they stand
AttrValues(f, name) ==
    LET at == SortedSeq(AttrStarts(f, name))
    IN  [k \in 1..Len(at) |->
            SubSeq(f, at[k] + Len(name) + 3, FirstOf(f, at[k] + Len(name) + 3, {"\""}) - 1)]

\* v is the percentage n: its decimal numeral followed by '%'
IsPercent(v, n) ==
    /\ Len(v) >= 2
    /\ v[Len(v)] = "%"
    /\ IsNumeral(SubSeq(v, 1, Len(v) - 1))
    /\ NatVal(SubSeq(v, 1, Len(v) - 1)) = n

Min(a, b) == IF a < b THEN a ELSE b

\* the coordinate attributes of the gradient elements
GradientCoords(op) ==
    IF op = "LinearGradient" THEN << <<"x","1">>, <<"y","1">>, <<"x","2">>, <<"y","2">> >>
    ELSE << <<"c","x">>, <<"c","y">>, <<"r">>, <<"f","x">>, <<"f","y">> >>

\* C16: pct(n) = min(n, 100) for every n in 0..255: values above 100
\* saturate to 100 (pct(150) = pct(255) = 100), values from 0 to 100 are
\* returned unchanged (pct(0) = 0), there is no lower clamp; the same clamp is
\* applied to every coordinate of LinearGradient and RadialGradient and to
\* every stop offset.
ThmC16_PercentClamp ==
    /\ app.fn = "pct" =>
          /\ app.n > 100 => app.ret = 100
          /\ app.n <= 100 => app.ret = app.n
          /\ app.n \in {150, 255} => app.ret = 100
          /\ app.n = 0 => app.ret = 0
    /\ calls # <<>> =>
          LET f     == Fragment(Len(calls))
              c     == LastCall.args[2]
              sc    == LastCall.args[3]
              names == GradientCoords(LastCall.op)
              offs  == AttrValues(f, <<"o","f","f","s","e","t">>)
          IN  /\ Len(names) = Len(c)
              /\ \A k \in 1..Len(c) :
                    /\ Cardinality(AttrStarts(f, names[k])) = 1
                    /\ IsPercent(AttrValue(f, names[k]), Min(c[k], 100))
              /\ Len(offs) = Len(sc)
              /\ \A k \in 1..Len(sc) : IsPercent(offs[k], Min(sc[k].Offset, 100))

WitC16_CoordinateAndOffsetSaturated ==
    /\ calls # <<>>
    /\ LastCall.op = "RadialGradient"
    /\ LastCall.args[2] = <<255, 100, 150, 0, 200>>
    /\ Len(LastCall.args[3]) = 2
    /\ LastCall.args[3][2].Offset = 150
    /\ AttrValue(Fragment(Len(calls)), <<"c","x">>) = <<"1","0","0","%">>
    /\ AttrValue(Fragment(Len(calls)), <<"f","x">>) = <<"0","%">>
    /\ AttrValues(Fragment(Len(calls)), <<"o","f","f","s","e","t">>)[2] = <<"1","0","0","%">>

----------------------------------------------------------------------------
(* Animation *)

\* coordpair returns a coordinate pair as a string
coordpair(x, y) == fmtD(x) \o <<" ">> \o fmtD(y)

\* sce makes start, center, end coordinates string for animate transformations
sce(start, center, end) == fmtD(start) \o <<" ">> \o fmtD(center) \o <<" ">> \o fmtD(end)

repeatStringZeroCounts(n) == IF n >= 0 THEN fmtD(n) ELSE <<"i","n","d","e","f","i","n","i","t","e">>

\* repeatString computes the repeat string for animation methods
\* repeat <= 0 --> "indefinite", otherwise the integer string
repeatString(n) == IF n > 0 THEN fmtD(n) ELSE <<"i","n","d","e","f","i","n","i","t","e">>

\* Animate animates the specified link, using the specified attribute
AnimateWrites(link, attr, from, to, duration, repeat, s) ==
    << <<"<","a","n","i","m","a","t","e"," ">> \o href(link) \o <<" ","a","t","t","r","i","b","u","t","e","N","a","m","e","=","\"">> \o attr
         \o <<"\""," ","f","r","o","m","=","\"">> \o fmtD(from) \o <<"\""," ","t","o","=","\"">> \o fmtD(to)
         \o <<"\""," ","d","u","r","=","\"">> \o fmtG(duration) \o <<"s","\""," ","r","e","p","e","a","t","C","o","u","n","t","=","\"">> \o repeatString(repeat)
         \o <<"\""," ">> \o endstyle(s, emptyclose) >>

\* AnimateMotion animates the referenced object along the specified path
AnimateMotionWrites(link, path, duration, repeat, s) ==
    << <<"<","a","n","i","m","a","t","e","M","o","t","i","o","n"," ">> \o href(link) \o <<" ","d","u","r","=","\"">> \o fmtG(duration)
         \o <<"s","\""," ","r","e","p","e","a","t","C","o","u","n","t","=","\"">> \o repeatString(repeat) \o <<"\""," ">> \o endstyle(s, <<">">>)
         \o <<"<","m","p","a","t","h"," ">> \o href(path) \o <<"/",">","<","/","a","n","i","m","a","t","e","M","o","t","i","o","n",">",
               "\n">> >>

\* AnimateTransform animates in the context of SVG transformations
AnimateTransformWrites(link, ttype, from, to, duration, repeat, s) ==
    << <<"<","a","n","i","m","a","t","e","T","r","a","n","s","f","o","r","m"," ">> \o href(link) \o <<" ","a","t","t","r","i","b","u","t","e","N","a","m","e","=","\"","t","r",
          "a","n","s","f","o","r","m","\""," ","t","y","p","e","=","\"">> \o ttype
         \o <<"\""," ","f","r","o","m","=","\"">> \o from \o <<"\""," ","t","o","=","\"">> \o to
         \o <<"\""," ","d","u","r","=","\"">> \o fmtG(duration) \o <<"s","\""," ","r","e","p","e","a","t","C","o","u","n","t","=","\"">> \o repeatString(repeat)
         \o <<"\""," ">> \o endstyle(s, emptyclose) >>

----------------------------------------------------------------------------
(* A program that applies repeatString, or makes one call of an animation *)
(* operation                                                              *)

Repeats == { -5, -1, 0, 1, 3, 12 }

AnimLinks == { <<"#","a">>, <<"#","b">> }

ApplyRepeatString ==
    /\ app = NoApp
    /\ calls = <<>>
    /\ \E n \in -5..20 :
          app' = [fn |-> "repeatString", n |-> n, done |-> TRUE, ret |-> repeatString(n)]
    /\ UNCHANGED <<sink, calls, status, reads>>

Animate ==
    /\ app = NoApp
    /\ Len(calls) < MaxOpCalls
    /\ \E link \in AnimLinks, repeat \in Repeats, s \in { <<>> } :
          Do("Animate", <<link, <<"x">>, 0, -40, 150, repeat, s>>,
             AnimateWrites(link, <<"x">>, 0, -40, 150, repeat, s))

AnimateMotion ==
    /\ app = NoApp
    /\ Len(calls) < MaxOpCalls
    /\ \E link \in AnimLinks, repeat \in Repeats, s \in { << <<"f","i","l","l","=","\"","f","r","e","e","z","e","\"">> >> } :
          Do("AnimateMotion", <<link, <<"#","p">>, 200, repeat, s>>,
             AnimateMotionWrites(link, <<"#","p">>, 200, repeat, s))

AnimateTransform ==
    /\ app = NoApp
    /\ Len(calls) < MaxOpCalls
    /\ \E link \in AnimLinks, repeat \in Repeats, s \in { <<>> } :
          Do("AnimateTransform", <<link, <<"s","c","a","l","e">>, <<"1">>, <<"2">>, 25, repeat, s>>,
             AnimateTransformWrites(link, <<"s","c","a","l","e">>, <<"1">>, <<"2">>, 25, repeat, s))

\* AnimateTranslate animates the translation transformation
AnimateTranslate ==
    /\ app = NoApp
    /\ Len(calls) < MaxOpCalls
    /\ \E link \in AnimLinks, repeat \in Repeats, s \in { <<>> } :
          Do("AnimateTranslate", <<link, 0, 0, 10, -20, 100, repeat, s>>,
             AnimateTransformWrites(link, <<"t","r","a","n","s","l","a","t","e">>, coordpair(0, 0), coordpair(10, -20),
                                    100, repeat, s))

\* AnimateRotate animates the rotation transformation
AnimateRotate ==
    /\ app = NoApp
    /\ Len(calls) < MaxOpCalls
    /\ \E link \in AnimLinks, repeat \in Repeats, s \in { <<>> } :
          Do("AnimateRotate", <<link, 0, 5, 5, 360, 5, 5, 100, repeat, s>>,
             AnimateTransformWrites(link, <<"r","o","t","a","t","e">>, sce(0, 5, 5), sce(360, 5, 5),
                                    100, repeat, s))

\* AnimateScale animates the scale transformation
AnimateScale ==
    /\ app = NoApp
    /\ Len(calls) < MaxOpCalls
    /\ \E link \in AnimLinks, repeat \in Repeats, s \in { <<>> } :
          Do("AnimateScale", <<link, 100, 250, 100, repeat, s>>,
             AnimateTransformWrites(link, <<"s","c","a","l","e">>, fmtG(100), fmtG(250), 100, repeat, s))

\* AnimateSkewX animates the skewX transformation
AnimateSkewX ==
    /\ app = NoApp
    /\ Len(calls) < MaxOpCalls
    /\ \E link \in AnimLinks, repeat \in Repeats, s \in { <<>> } :
          Do("AnimateSkewX", <<link, 0, 3050, 100, repeat, s>>,
             AnimateTransformWrites(link, <<"s","k","e","w","X">>, fmtG(0), fmtG(3050), 100, repeat, s))

\* AnimateSkewY animates the skewY transformation
AnimateSkewY ==
    /\ app = NoApp
    /\ Len(calls) < MaxOpCalls
    /\ \E link \in AnimLinks, repeat \in Repeats, s \in { <<>> } :
          Do("AnimateSkewY", <<link, -1000, 0, 100, repeat, s>>,
             AnimateTransformWrites(link, <<"s","k","e","w","Y">>, fmtG(-1000), fmtG(0), 100, repeat, s))

NextAnim ==
    \/ ApplyRepeatString
    \/ Animate \/ AnimateMotion \/ AnimateTransform
    \/ AnimateTranslate \/ AnimateRotate \/ AnimateScale \/ AnimateSkewX \/ AnimateSkewY

SpecAnim == InitEmitter /\ [][NextAnim]_vars

----------------------------------------------------------------------------
(* Claims about repeat counts *)

\* t is the repeat string of n: "indefinite" for n <= 0, else the decimal
\* numeral of n
IsRepeatOf(t, n) ==
    IF n <= 0 THEN t = <<"i","n","d","e","f","i","n","i","t","e">>
    ELSE IsNumeral(t) /\ t[1] # "0" /\ NatVal(t) = n

\* the repeat argument of an animation call
RepeatArg(c) ==
    CASE c.op \in {"Animate", "AnimateTransform"} -> c.args[6]
      [] c.op = "AnimateMotion" -> c.args[4]
      [] c.op = "AnimateTranslate" -> c.args[7]
      [] c.op = "AnimateRotate" -> c.args[9]
      [] c.op \in {"AnimateScale", "AnimateSkewX", "AnimateSkewY"} -> c.args[5]

\* C17: repeatString(n) returns the literal "indefinite" for every n <= 0
\* (0 and negative values included) and the decimal string of n for every
\* n > 0; every animation operation (Animate, AnimateMotion, AnimateTransform
\* and its wrappers) writes its repeatCount attribute with exactly this
\* value.
ThmC17_RepeatCount ==
    /\ app.fn = "repeatString" => IsRepeatOf(app.ret, app.n)
    /\ calls # <<>> =>
          LET f == Fragment(Len(calls))
          IN  /\ Cardinality(AttrStarts(f, <<"r","e","p","e","a","t","C","o","u","n","t">>)) = 1
              /\ IsRepeatOf(AttrValue(f, <<"r","e","p","e","a","t","C","o","u","n","t">>), RepeatArg(LastCall))

WitC17_RotateForEver ==
    /\ calls # <<>>
    /\ LastCall.op = "AnimateRotate"
    /\ RepeatArg(LastCall) = 0
    /\ Fragment(Len(calls)) =
          <<"<","a","n","i","m","a","t","e","T","r","a","n","s","f","o","r","m"," ",
            "x","l","i","n","k",":","h","r","e","f","=","\"","#","a","\""," ","a","t",
            "t","r","i","b","u","t","e","N","a","m","e","=","\"","t","r","a","n","s",
            "f","o","r","m","\""," ","t","y","p","e","=","\"","r","o","t","a","t","e",
            "\""," ","f","r","o","m","=","\"","0"," ","5"," ","5","\""," ","t","o","=",
            "\"","3","6","0"," ","5"," ","5","\""," ","d","u","r","=","\"","1","s","\"",
            " ","r","e","p","e","a","t","C","o","u","n","t","=","\"","i","n","d","e",
            "f","i","n","i","t","e","\""," ","/",">","\n">>

----------------------------------------------------------------------------
(* Script and Style *)

\* strings.HasPrefix
HasPrefix(t, prefix) == Len(t) >= Len(prefix) /\ SubSeq(t, 1, Len(prefix)) = prefix

\* islink determines if a string is a script reference
islink(link) ==
    \/ HasPrefix(link, <<"h","t","t","p",":","/","/">>) \/ HasPrefix(link, <<"#">>)
    \/ HasPrefix(link, <<".",".","/">>) \/ HasPrefix(link, <<".","/">>)

\* linkembed defines an element with a specified type: the link form when
\* there is exactly one data argument and it is a link, else the data in a
\* CDATA section, else, with no data, the closed element
linkembed(tag, scriptype, data) ==
    << <<"<">> \o tag \o <<" ","t","y","p","e","=","\"">> \o scriptype \o <<"\"">> >>
    \o (IF Len(data) = 1 /\ islink(data[1])
        THEN << <<" ">> \o href(data[1]) \o <<"/",">","\n">> >>
        ELSE IF Len(data) > 0
        THEN << <<">","\n","<","!","[","C","D","A","T","A","[","\n">> >>
             \o [i \in 1..Len(data) |-> println(data[i])]
             \o << <<"]","]",">","\n","<","/">> \o tag \o <<">","\n">> >>
        ELSE << println(<<"/",">">>) >>)

----------------------------------------------------------------------------
(* A program that makes one call of Script or Style *)

DataItems == { <<"#","a">>, <<".",".","/","a",".","j","s">>, <<"h","t","t","p",":","/","/","x">>, <<".","/","a">>, <<"x","{","}">> }

\* Script defines a script with a specified type
Script ==
    /\ Len(calls) < MaxOpCalls
    /\ \E t \in { <<"a","p","p","l","i","c","a","t","i","o","n","/","j","a","v","a","s","c",
          "r","i","p","t">>, <<>> }, data \in SeqUpTo(DataItems, MaxData) :
          Do("Script", <<t, data>>, linkembed(<<"s","c","r","i","p","t">>, t, data))

\* Style defines the specified style
Style ==
    /\ Len(calls) < MaxOpCalls
    /\ \E t \in { <<"t","e","x","t","/","c","s","s">>, <<>> }, data \in SeqUpTo(DataItems, MaxData) :
          Do("Style", <<t, data>>, linkembed(<<"s","t","y","l","e">>, t, data))

NextEmbed == Script \/ Style

SpecEmbed == InitEmitter /\ [][NextEmbed]_vars

\* every data item followed by a newline
RECURSIVE Lines(_)
Lines(data) == IF data = <<>> THEN <<>> ELSE Head(data) \o <<"\n">> \o Lines(Tail(data))

\* C19: Script and Style choose their output form from the data arguments as
\* documented: if the first data argument is a link (it starts with
\* "http://", "#", "../" or "./"), only the link reference is written, as a
\* self-closed element with an xlink:href attribute, however many data
\* arguments follow; otherwise, if there is any data, every data item is
\* written on its own line inside one CDATA section followed by the closing
\* tag; with no data the element is just self-closed.
CexC19_FirstLinkOnly ==
    calls # <<>> =>
        LET tag   == IF LastCall.op = "Script" THEN <<"s","c","r","i","p","t">> ELSE <<"s","t","y","l","e">>
            data  == LastCall.args[2]
            open  == <<"<">> \o tag \o <<" ","t","y","p","e","=","\"">> \o LastCall.args[1] \o <<"\"">>
            first == data[1]
            link  == \E pre \in { <<"h","t","t","p",":","/","/">>, <<"#">>, <<".",".","/">>, <<".","/">> } : StartsWith(first, pre)
        IN  Fragment(Len(calls)) =
               (IF data = <<>> THEN open \o <<"/",">","\n">>
                ELSE IF link THEN open \o <<" ","x","l","i","n","k",":","h","r","e","f","=","\"">> \o first \o <<"\"","/",">","\n">>
                ELSE open \o <<">","\n","<","!","[","C","D","A","T","A","[","\n">> \o Lines(data) \o <<"]","]",">","\n","<","/">> \o tag \o <<">","\n">>)

----------------------------------------------------------------------------
(* A program that makes one call of Rect, CenterRect or Square *)

\* Go's integer division, which truncates toward zero
goDiv(a, b) == IF a < 0 THEN 0 - ((0 - a) \div b) ELSE a \div b

RectStyleItems == { <<>>, <<"=","a">>, <<"a","=","1">>, <<"f","i","l","l",":","r","e","d">> }

Rect ==
    /\ Len(calls) < MaxOpCalls
    /\ \E d \in { <<0, 0, 1, 1>>, <<3, 4, 10, 20>>, <<-3, 0, -10, 7>> },
          s \in SeqUpTo(RectStyleItems, MaxItems) :
          Do("Rect", <<d[1], d[2], d[3], d[4], s>>, RectWrites(d[1], d[2], d[3], d[4], s))

\* CenterRect draws a rectangle with its center at x,y, with width w, and
\* height h, with optional style
CenterRect ==
    /\ Len(calls) < MaxOpCalls
    /\ \E d \in { <<10, 10, 5, -7>> }, s \in SeqUpTo(RectStyleItems, MaxItems) :
          Do("CenterRect", <<d[1], d[2], d[3], d[4], s>>,
             RectWrites(d[1] - goDiv(d[3], 2), d[2] - goDiv(d[4], 2), d[3], d[4], s))

\* Square draws a square with upper left corner at x,y with sides of length l
Square ==
    /\ Len(calls) < MaxOpCalls
    /\ \E d \in { <<2, 3, 8>> }, s \in SeqUpTo(RectStyleItems, MaxItems) :
          Do("Square", <<d[1], d[2], d[3], s>>, RectWrites(d[1], d[2], d[3], d[3], s))

NextRect == Rect \/ CenterRect \/ Square

SpecRect == InitEmitter /\ [][NextRect]_vars

\* what the last fragment holds after its first height attribute
AfterHeight ==
    LET f    == Fragment(Len(calls))
        from == Least(AttrStarts(f, <<"h","e","i","g","h","t">>)) + 9
    IN  SubSeq(f, FirstOf(f, from, {"\""}) + 1, Len(f))

\* C20: Rect composes its style arguments by the same rule as the shared
\* endstyle helper: for every sequence of style items, the attribute
\* fragments Rect writes between the height attribute and the closing '/>'
\* are, item for item and in the same order, the fragments endstyle produces
\* for the same items (verbatim pair or style="..." wrapper, the empty-string
\* item and items starting with '=' included), so Rect and the other shape
\* operations agree on every input.
CexC20_RectAsEndstyle ==
    calls # <<>> =>
        LET s == LastCall.args[Len(LastCall.args)]
        IN  AfterHeight = <<" ">> \o endstyle(s, emptyclose)

----------------------------------------------------------------------------
(* Operations called with empty inputs *)

\* tablevalues outputs a series of values as a XML attribute.  With an empty
\* t the loop does not run and t[len(t)-1] panics, after the attribute name
\* was written and before the last printf.
tablevalues(s, t) ==
    IF Len(t) = 0
    THEN [ws |-> << <<" ">> \o s \o <<"=","\"">> >>, reads |-> 0, panic |-> TRUE]
    ELSE [ws |-> << <<" ">> \o s \o <<"=","\"">> >>
                   \o [i \in 1..(Len(t) - 1) |-> fmtG(t[i]) \o <<" ">>]
                   \o << fmtG(t[Len(t)]) \o <<"\"">> \o emptyclose >>,
          reads |-> Len(t), panic |-> FALSE]

TableValues == SeqUpTo({0, 50, 100}, MaxPts)

\* FeFuncTable specifies the table of values for the feFunc{R|G|B|A} filter
\* element
FeFuncTable ==
    /\ Len(calls) < MaxOpCalls
    /\ \E channel \in { <<"R">>, <<"g","r","e","e","n">> }, tv \in TableValues :
          LET tvs == tablevalues(<<"t","a","b","l","e","V","a","l","u","e","s">>, tv)
          IN  DoRun("FeFuncTable", <<channel, tv>>,
                    [tvs EXCEPT !.ws = << <<"<","f","e","F","u","n","c">> \o imgchannel(channel)
                                            \o <<" ","t","y","p","e","=","\"","t","a","b","l","e","\"">> >> \o tvs.ws])

\* FeFuncDiscrete specifies the discrete values for the feFunc{R|G|B|A}
\* filter element
FeFuncDiscrete ==
    /\ Len(calls) < MaxOpCalls
    /\ \E channel \in { <<"R">>, <<"g","r","e","e","n">> }, tv \in TableValues :
          LET tvs == tablevalues(<<"t","a","b","l","e","V","a","l","u","e","s">>, tv)
          IN  DoRun("FeFuncDiscrete", <<channel, tv>>,
                    [tvs EXCEPT !.ws = << <<"<","f","e","F","u","n","c">> \o imgchannel(channel)
                                            \o <<" ","t","y","p","e","=","\"","d","i","s","c","r","e","t","e","\"">> >> \o tvs.ws])

NextEmpty == Polygon \/ Polyline \/ FeFuncTable \/ FeFuncDiscrete \/ FeTurbulence

SpecEmpty == InitEmitter /\ [][NextEmpty]_vars

\* the last call was given an empty input: two empty coordinate arrays, an
\* empty table of values, an empty type string
EmptyInput ==
    \/ LastCall.op \in {"Polygon", "Polyline"} /\ LastCall.args[1] = <<>> /\ LastCall.args[2] = <<>>
    \/ LastCall.op \in {"FeFuncTable", "FeFuncDiscrete"} /\ LastCall.args[2] = <<>>
    \/ LastCall.op = "FeTurbulence" /\ LastCall.args[2] = <<>>

\* C21: no operation aborts with an out-of-range access on an empty input:
\* Polygon and Polyline with two empty coordinate arrays, FeFuncTable and
\* FeFuncDiscrete with an empty table of values, and FeTurbulence with an
\* empty type string all complete and write a well-formed element, the
\* turbulence type being "fractalNoise" when the string starts with 'f' or
\* 'F' and "turbulence" for every other string.
CexC21_EmptyInputsComplete ==
    calls # <<>> =>
        /\ status = "ok"
        /\ StartsWith(Fragment(Len(calls)), <<"<">>)
        /\ EndsWith(Fragment(Len(calls)), <<"/",">","\n">>)
        /\ LastCall.op = "FeTurbulence" =>
              AttrValue(Fragment(Len(calls)), <<"t","y","p","e">>) =
                 (IF LastCall.args[2] # <<>> /\ LastCall.args[2][1] \in {"f", "F"}
                  THEN <<"f","r","a","c","t","a","l","N","o","i","s","e">> ELSE <<"t","u","r","b","u","l","e","n","c","e">>)

=============================================================================
